---- MODULE Spec2Model ----
(***************************************************************************)
(* Model of parse_payment_summary.py: the line-to-record heuristic, the    *)
(* category normalization, the provider-name cleaning, the provider totals *)
(* and the readable export, the Caesar-shift decoder, the group and        *)
(* provider section iterators, the scan of the OCR pages for a provider id *)
(* and the control flow of main() with its external commands and temporary *)
(* directories; and of the cover lookup find_cover_for_audio and the       *)
(* tagging steps of process_audio of psp_embed_cover.py.                   *)
(*                                                                         *)
(* Text is a sequence of characters, each character a one-character        *)
(* string.  Amounts are integers counting cents: the source parses tokens  *)
(* with at most two decimals into floats and prints them with two          *)
(* decimals.                                                               *)
(***************************************************************************)
EXTENDS Integers, Sequences, FiniteSets, TLC

VARIABLES
    line,        \* argument of line_to_category_and_numbers
    lineResult,  \* its result, or Pending
    cat_raw,     \* argument of normalize_category
    catResult,   \* its result, or Pending
    cand,        \* argument of clean_provider_name_raw
    nameResult,  \* its result, or Pending
    hybrid,            \* args.hybrid
    pages,             \* the pages of the document, each the sequence of its lines
    grp_rows,          \* rows of the group summary
    provider_entries,  \* the provider entries built so far
    meta,              \* parse_metadata of the first page
    csv_totals,        \* rows of provider_totals.csv
    csv_categories,    \* rows of provider_categories.csv
    readable,          \* lines of combined_readable.txt
    stage,             \* where main stands in building and writing
    args,           \* the command line and whether the input path exists
    env,            \* what the input file and the external tools deliver
    pc,             \* the position of main
    text,           \* main's text, or Pending
    decoded_text,   \* main's decoded_text (hybrid mode), or Pending
    provider_indices, \* hybrid mode: the indices of the provider pages
    loop_i,         \* position of the per-provider loop in provider_indices
    provider_id,    \* the id found so far for the provider of this iteration
    summary_left,   \* summary pages still to probe for this provider
    entry_ids,      \* the "id" of every provider entry appended so far
    written,        \* the files written to out_dir
    exit_code,      \* the exit status of the process, or Pending
    temp_dirs,      \* the temporary directories that exist on disk
    temp_made,      \* the temporary directories created so far
    commands,       \* the commands started through subprocess.run, in order
    attempted,      \* the optional writers called so far
    swallowed,      \* the id probes of the provider at hand that raised
    dec_text,    \* argument text of decode_caesar_shift
    dec_args,    \* its arguments shift, low and high
    dec_once,    \* decode_caesar_shift of dec_text, or Pending
    dec_twice,   \* decode_caesar_shift of that result, or Pending
    folder,      \* the files next to the audio file: name -> state
    cover,       \* the result of find_cover_for_audio, or Pending
    sec_fn,         \* which section iterator runs: "group" or "provider"
    section_name,   \* the section the provider iterator is asked for
    sec_pages,      \* the decoded pages, each the sequence of its lines
    sec_pg,         \* the page the iterator is at
    sec_ln,         \* the line of that page it is at
    payment_type,   \* the current section kind, or NoPaymentType
    expect_matrix,  \* whether rows are collected
    sec_rows,       \* the rows yielded so far
    scan_name,   \* argument provider_name of _find_id_for_provider_in_ocr_pages
    scan_pages,  \* argument pages_ocr, each page the sequence of its lines
    scan_pg,     \* the page the scan is at
    scan_ln,     \* the line of that page it is at
    scan_id,     \* the result of the scan, or Pending
    cat_again,   \* normalize_category of catResult, or Pending
    emb_in,      \* process_audio: the audio file's extension and tags before
                 \* the call, the covers at hand, what the tag library meets
    emb_file,    \* the tags of the audio file on disk
    emb_cover,   \* the cover chosen, or Pending
    emb_pc,      \* the position of process_audio
    emb_result   \* the value process_audio returns, or Pending

decodeVars == <<dec_text, dec_args, dec_once, dec_twice>>
coverVars == <<folder, cover>>
sectionVars ==
    <<sec_fn, section_name, sec_pages, sec_pg, sec_ln, payment_type, expect_matrix,
      sec_rows>>
scanVars == <<scan_name, scan_pages, scan_pg, scan_ln, scan_id>>
againVars == <<cat_again>>
embedVars == <<emb_in, emb_file, emb_cover, emb_pc, emb_result>>
moreVars == <<scanVars, againVars, embedVars>>
auxVars == <<decodeVars, coverVars, sectionVars, moreVars>>
pureVars == <<line, lineResult, cat_raw, catResult, cand, nameResult, auxVars>>
exportVars == <<hybrid, pages, grp_rows, provider_entries, meta, csv_totals,
                csv_categories, readable, stage>>
sysVars == <<temp_dirs, temp_made, commands, attempted, swallowed>>
mainVars == <<args, env, pc, text, decoded_text, provider_indices, loop_i,
              provider_id, summary_left, entry_ids, written, exit_code, sysVars>>
vars == <<pureVars, exportVars, mainVars>>

\* A result variable holds <<>> until the function has run, then <<value>>.
Pending == <<>>
Returned(v) == <<v>>
\* F(v), with v evaluated once
Once(v, F(_)) == CHOOSE y \in {F(x) : x \in {v}} : TRUE
\* (None, None, None) and (category, current month, year to date)
NoneResult == [none |-> TRUE, category |-> <<>>, cur |-> 0, ytd |-> 0]
Record(c, x, y) == [none |-> FALSE, category |-> c, cur |-> x, ytd |-> y]

(***************************************************************************)
(* Characters and basic string operations of Python's str and re.          *)
(***************************************************************************)
Chars(s) == [i \in 1..Len(s) |-> SubSeq(s, i, i)]

UpperLetters == Chars("ABCDEFGHIJKLMNOPQRSTUVWXYZ")
LowerLetters == Chars("abcdefghijklmnopqrstuvwxyz")
DigitChars == Chars("0123456789")
\* U+2013 and U+2014, each one character of the text
EnDash == "U+2013"
EmDash == "U+2014"

Range(seq) == {seq[i] : i \in 1..Len(seq)}
UpperSet == Range(UpperLetters)
LowerSet == Range(LowerLetters)
DigitSet == Range(DigitChars)
\* \s of the re module, within the characters of the model
WhiteSet == {" ", "\t", "\n", "\f", "\r"}

IsLetter(c) == c \in UpperSet \/ c \in LowerSet
IsDigit(c) == c \in DigitSet
IsSpace(c) == c \in WhiteSet
\* \w of the re module
IsWordChar(c) == IsLetter(c) \/ IsDigit(c) \/ c = "_"

IndexOf(seq, c) == CHOOSE i \in 1..Len(seq) : seq[i] = c
DigitVal(c) == IndexOf(DigitChars, c) - 1

UpperChar(c) == IF c \in LowerSet THEN UpperLetters[IndexOf(LowerLetters, c)] ELSE c
LowerChar(c) == IF c \in UpperSet THEN LowerLetters[IndexOf(UpperLetters, c)] ELSE c
\* str.upper and str.lower
Upper(s) == [i \in 1..Len(s) |-> UpperChar(s[i])]
Lower(s) == [i \in 1..Len(s) |-> LowerChar(s[i])]

HasLetter(s) == \E i \in 1..Len(s) : IsLetter(s[i])

\* s[i-1:] and s[:i] of Python, positions counted from 1; a slice past the
\* end stops at the end
From(s, i) == SubSeq(s, i, Len(s))
Upto(s, i) == SubSeq(s, 1, IF i > Len(s) THEN Len(s) ELSE i)

\* whether sub occurs in s at position i
OccursAt(s, i, sub) ==
    /\ i >= 1
    /\ i + Len(sub) - 1 <= Len(s)
    /\ SubSeq(s, i, i + Len(sub) - 1) = sub

\* sub in s
Contains(s, sub) == \E i \in 1..(Len(s) + 1) : OccursAt(s, i, sub)

\* str.endswith
EndsWith(s, sub) == OccursAt(s, Len(s) - Len(sub) + 1, sub)

\* s.rsplit(sep, 1)[0]: the text before the last occurrence of sep, or s
RSplitHead(s, sep) ==
    LET occ == {i \in 1..Len(s) : OccursAt(s, i, sep)}
    IN  IF occ = {} THEN s
        ELSE Upto(s, (CHOOSE i \in occ : \A j \in occ : j <= i) - 1)

\* str.strip(chars) / lstrip / rstrip for a set of characters
LStripSet(s, set) ==
    LET keep == {i \in 1..Len(s) : s[i] \notin set}
    IN  IF keep = {} THEN <<>>
        ELSE From(s, CHOOSE i \in keep : \A j \in keep : i <= j)
RStripSet(s, set) ==
    LET keep == {i \in 1..Len(s) : s[i] \notin set}
    IN  IF keep = {} THEN <<>>
        ELSE Upto(s, CHOOSE i \in keep : \A j \in keep : j <= i)
StripSet(s, set) == LStripSet(RStripSet(s, set), set)
\* str.strip() and str.rstrip()
Strip(s) == StripSet(s, WhiteSet)
RStrip(s) == RStripSet(s, WhiteSet)

\* re.sub(r"\s+", " ", s): every run of whitespace becomes one space
RECURSIVE CollapseFrom(_, _)
CollapseFrom(s, i) ==
    IF i > Len(s) THEN <<>>
    ELSE IF IsSpace(s[i])
         THEN IF i > 1 /\ IsSpace(s[i - 1]) THEN CollapseFrom(s, i + 1)
              ELSE <<" ">> \o CollapseFrom(s, i + 1)
         ELSE <<s[i]>> \o CollapseFrom(s, i + 1)
CollapseWs(s) == CollapseFrom(s, 1)

\* str.replace(old, new): non-overlapping occurrences, left to right
RECURSIVE ReplaceFrom(_, _, _, _)
ReplaceFrom(s, i, old, new) ==
    IF i > Len(s) THEN <<>>
    ELSE IF OccursAt(s, i, old) THEN new \o ReplaceFrom(s, i + Len(old), old, new)
         ELSE <<s[i]>> \o ReplaceFrom(s, i + 1, old, new)
Replace(s, old, new) == ReplaceFrom(s, 1, old, new)

\* first position >= i holding no whitespace (Len(s) + 1 when there is none)
RECURSIVE SkipWs(_, _)
SkipWs(s, i) == IF i <= Len(s) /\ IsSpace(s[i]) THEN SkipWs(s, i + 1) ELSE i

\* length of the run of digits starting at i, counted up to k
RECURSIVE DigitRun(_, _, _)
DigitRun(s, i, k) ==
    IF k = 0 \/ i > Len(s) THEN 0
    ELSE IF IsDigit(s[i]) THEN 1 + DigitRun(s, i + 1, k - 1) ELSE 0

(***************************************************************************)
(* _NUM_RE = -?\d{1,3}(?:,\d{3})*(?:\.\d{2})?  and its findall.            *)
(* Every part after the first digits is optional, so the greedy choice is  *)
(* the match.  A match is <<first, next>>: it covers first..next-1.        *)
(***************************************************************************)
RECURSIVE NumCommaGroups(_, _)
NumCommaGroups(s, i) ==
    IF i <= Len(s) /\ s[i] = "," /\ DigitRun(s, i + 1, 3) = 3
    THEN NumCommaGroups(s, i + 4)
    ELSE i

NumFraction(s, i) ==
    IF i <= Len(s) /\ s[i] = "." /\ DigitRun(s, i + 1, 2) = 2 THEN i + 3 ELSE i

\* the position after the match starting at i, or 0 when none starts there
NumMatchAt(s, i) ==
    LET j == IF s[i] = "-" THEN i + 1 ELSE i
        d == DigitRun(s, j, 3)
    IN  IF d = 0 THEN 0 ELSE NumFraction(s, NumCommaGroups(s, j + d))

RECURSIVE NumFindFrom(_, _)
NumFindFrom(s, i) ==
    IF i > Len(s) THEN <<>>
    ELSE LET e == NumMatchAt(s, i)
         IN  IF e = 0 THEN NumFindFrom(s, i + 1)
             ELSE <<<<i, e>>>> \o NumFindFrom(s, e)

\* the spans of _NUM_RE.findall(s)
NumSpans(s) == NumFindFrom(s, 1)
\* _NUM_RE.findall(s)
NumFindAll(s) ==
    LET sp == NumSpans(s)
    IN  [k \in 1..Len(sp) |-> SubSeq(s, sp[k][1], sp[k][2] - 1)]

\* the digits of s as a natural number
RECURSIVE DigitsValue(_)
DigitsValue(s) ==
    IF s = <<>> THEN 0
    ELSE 10 * DigitsValue(Upto(s, Len(s) - 1)) + DigitVal(s[Len(s)])

\* float(tok.replace(",", "")) of a _NUM_RE match, in cents
NumToCents(tok) ==
    LET plain == SelectSeq(tok, LAMBDA c : c # ",")
        neg == plain[1] = "-"
        body == IF neg THEN Tail(plain) ELSE plain
        hasFrac == Len(body) >= 3 /\ body[Len(body) - 2] = "."
        whole == IF hasFrac THEN Upto(body, Len(body) - 3) ELSE body
        frac == IF hasFrac THEN From(body, Len(body) - 1) ELSE <<"0", "0">>
        mag == 100 * DigitsValue(whole) + DigitsValue(frac)
    IN  IF neg THEN 0 - mag ELSE mag

(***************************************************************************)
(* _CATEGORY_CANON and normalize_category.                                 *)
(***************************************************************************)
CATEGORY_CANON ==
    { <<Chars("ACCESS BONUS PAYMENT"), Chars("ACCESS BONUS PAYMENT")>>,
      <<Chars("LTC ACCESS BONUS PAYMENT"), Chars("LTC ACCESS BONUS PAYMENT")>>,
      <<Chars("GROUP MANAGEMENT LEADERSHIP PAYMENT"), Chars("GROUP MANAGEMENT LEADERSHIP PAYMENT")>>,
      <<Chars("OFFICE PRACTICE ADMINISTRATION PAYMENT"), Chars("OFFICE PRACTICE ADMINISTRATION PAYMENT")>>,
      <<Chars("HCP RELATIVITY PAYMENT"), Chars("HCP RELATIVITY PAYMENT")>>,
      <<Chars("RMB RELATIVITY PAYMENT"), Chars("RMB RELATIVITY PAYMENT")>>,
      <<Chars("WSIB RELATIVITY PAYMENT"), Chars("WSIB RELATIVITY PAYMENT")>>,
      <<Chars("YEAR 1 (2024-2025) COMPENSATION INCREASE"), Chars("YEAR 1 (2024-2025) COMPENSATION INCREASE")>>,
      <<Chars("NETWORK BASE RATE PAYMENT"), Chars("NETWORK BASE RATE PAYMENT")>>,
      <<Chars("BASE RATE PAYMENT RECONCILIATION ADJMT"), Chars("BASE RATE PAYMENT RECONCILIATION ADJMT")>>,
      <<Chars("BASE RATE ACUITY PAYMENT"), Chars("BASE RATE ACUITY PAYMENT")>>,
      <<Chars("BASE RATE ACUITY ADJUSTMENT"), Chars("BASE RATE ACUITY ADJUSTMENT")>>,
      <<Chars("COMP CARE CAPITATION"), Chars("COMP CARE CAPITATION")>>,
      <<Chars("COMP CARE RECONCILIATION"), Chars("COMP CARE RECONCILIATION")>>,
      <<Chars("BLENDED FEE-FOR-SERVICE PREMIUM"), Chars("BLENDED FEE-FOR-SERVICE PREMIUM")>>,
      <<Chars("BLENDED FEE FOR SERVICE PREMIUM"), Chars("BLENDED FEE-FOR-SERVICE PREMIUM")>>,
      <<Chars("PREVENTIVE CARE BONUS"), Chars("PREVENTIVE CARE BONUS")>>,
      <<Chars("TOTAL CLAIMS PAYABLE"), Chars("TOTAL CLAIMS PAYABLE")>>,
      <<Chars("AGE PREMIUM PAYMENT"), Chars("AGE PREMIUM PAYMENT")>>,
      <<Chars("SPECIAL PREMIUM PAYMENT"), Chars("SPECIAL PREMIUM PAYMENT")>> }

CanonKeys == {p[1] : p \in CATEGORY_CANON}
CanonValues == {p[2] : p \in CATEGORY_CANON}
\* _CATEGORY_CANON[k]
CanonLookup(k) == (CHOOSE p \in CATEGORY_CANON : p[1] = k)[2]

\* _normalize_spaces
normalize_spaces(s) == Strip(CollapseWs(s))

\* A match of \bYEAR\s*(\d)\s*\((\d{4}-\d{4})\)\s*COMPENSATION\s*INCREASE
\* starting at i: next is the position after it (0 when there is none).
YearMatchAt(s, i) ==
    LET p2 == SkipWs(s, i + 4)
        p3 == SkipWs(s, p2 + 1)
        p4 == p3 + 1
        p5 == p4 + 9
        p6 == SkipWs(s, p5 + 1)
        p7 == SkipWs(s, p6 + 12)
        ok == /\ i = 1 \/ ~IsWordChar(s[i - 1])
              /\ OccursAt(s, i, Chars("YEAR"))
              /\ p2 <= Len(s) /\ IsDigit(s[p2])
              /\ p3 <= Len(s) /\ s[p3] = "("
              /\ DigitRun(s, p4, 4) = 4
              /\ p4 + 4 <= Len(s) /\ s[p4 + 4] = "-"
              /\ DigitRun(s, p4 + 5, 4) = 4
              /\ p5 <= Len(s) /\ s[p5] = ")"
              /\ OccursAt(s, p6, Chars("COMPENSATION"))
              /\ OccursAt(s, p7, Chars("INCREASE"))
    IN  IF ok
        THEN [next |-> p7 + 8, digit |-> <<s[p2]>>, range |-> SubSeq(s, p4, p4 + 8)]
        ELSE [next |-> 0, digit |-> <<>>, range |-> <<>>]

\* re.sub of the YEAR pattern by r"YEAR \1 (\2) COMPENSATION INCREASE"
RECURSIVE YearSubFrom(_, _)
YearSubFrom(s, i) ==
    IF i > Len(s) THEN <<>>
    ELSE LET m == YearMatchAt(s, i)
         IN  IF m.next = 0 THEN <<s[i]>> \o YearSubFrom(s, i + 1)
             ELSE Chars("YEAR ") \o m.digit \o Chars(" (") \o m.range
                    \o Chars(") COMPENSATION INCREASE") \o YearSubFrom(s, m.next)
YearSub(s) == YearSubFrom(s, 1)

\* the label as it is looked up in the table: normalize_category up to the lookup
CategoryKey(raw) ==
    LET c1 == Upper(raw)
        c2 == Replace(Replace(c1, <<EmDash>>, <<"-">>), <<EnDash>>, <<"-">>)
        c3 == Replace(c2, <<" ", " ">>, <<" ">>)
        c4 == YearSub(c3)
        c5 == StripSet(c4, {" ", ":", "-"})
        c6 == Replace(c5, Chars("FEE - FOR - SERVICE"), Chars("FEE FOR SERVICE"))
        c7 == Replace(c6, Chars("FEE-FOR-SERVICE"), Chars("FEE-FOR-SERVICE"))
    IN  normalize_spaces(c7)

\* the relaxed form looked up second: the label without hyphens
RelaxedKey(cat) == Replace(cat, <<"-">>, <<" ">>)

\* a slip: the cleaned label is returned instead of the original one
UnmatchedCleaned(raw) == CategoryKey(raw)

\* what normalize_category returns when neither lookup matches
Unmatched(raw) == Strip(raw)

normalize_category(raw) ==
    LET cat == CategoryKey(raw)
        relaxed == RelaxedKey(cat)
    IN  IF cat \in CanonKeys THEN CanonLookup(cat)
        ELSE IF relaxed \in CanonKeys THEN CanonLookup(relaxed)
        ELSE Unmatched(raw)

(***************************************************************************)
(* line_to_category_and_numbers.                                           *)
(***************************************************************************)
\* the characters stripped from the head: head.strip(":-–— ")
HeadStripSet == {":", "-", EnDash, EmDash, " "}

\* a slip: the numbers are not cut off the line
LineHeadUncut(s, a, b) == s

\* the text before the last two numbers (s is the stripped line, a and b
\* the last two matches)
LineHead(s, a, b) ==
    LET tail == a \o <<" ">> \o b
    IN  IF EndsWith(s, tail)
        THEN RStrip(Upto(s, Len(s) - Len(tail)))
        ELSE RStrip(RSplitHead(RStrip(RSplitHead(s, b)), a))

\* the guard len(nums) < 2
TooFewNumbers(n) == n < 2

\* a slip: only trailing separators are trimmed, spacing is left alone
CleanHeadTrailing(head) == RStripSet(head, HeadStripSet)

\* the head as it is handed to normalize_category
CleanHead(head) == StripSet(CollapseWs(head), HeadStripSet)

\* a slip: a line with a single number is taken as a record, the number
\* standing for both amounts
line_to_category_and_numbers_one(ln) ==
    LET s == Strip(ln)
        nums == NumFindAll(s)
        n == Len(nums)
        a == nums[IF n >= 2 THEN n - 1 ELSE n]
        head == LineHead(s, a, nums[n])
    IN  IF s = <<>> THEN NoneResult
        ELSE IF n < 1 THEN NoneResult
        ELSE IF ~HasLetter(head) THEN NoneResult
        ELSE Record(normalize_category(CleanHead(head)),
                    NumToCents(a), NumToCents(nums[n]))

line_to_category_and_numbers(ln) ==
    LET s == Strip(ln)
        nums == NumFindAll(s)
        n == Len(nums)
        head == LineHead(s, nums[n - 1], nums[n])
    IN  IF s = <<>> THEN NoneResult
        ELSE IF TooFewNumbers(n) THEN NoneResult
        ELSE IF ~HasLetter(head) THEN NoneResult
        ELSE Record(normalize_category(CleanHead(head)),
                    NumToCents(nums[n - 1]), NumToCents(nums[n]))

(***************************************************************************)
(* clean_provider_name_raw.                                                *)
(***************************************************************************)
\* str.split(" ") of a text: the pieces between single spaces
RECURSIVE SplitFrom(_, _, _)
SplitFrom(s, i, sep) ==
    LET rest == {j \in i..Len(s) : s[j] = sep}
    IN  IF rest = {} THEN <<SubSeq(s, i, Len(s))>>
        ELSE LET j == CHOOSE k \in rest : \A m \in rest : k <= m
             IN  <<SubSeq(s, i, j - 1)>> \o SplitFrom(s, j + 1, sep)
Split(s, sep) == SplitFrom(s, 1, sep)

\* sep.join(parts)
RECURSIVE Join(_, _)
Join(parts, sep) ==
    IF parts = <<>> THEN <<>>
    ELSE IF Len(parts) = 1 THEN parts[1]
    ELSE parts[1] \o sep \o Join(Tail(parts), sep)

\* re.sub(r"[^A-Za-z\s\-']", " ", cand)
BlankNonNameChars(s) ==
    [i \in 1..Len(s) |->
        IF IsLetter(s[i]) \/ IsSpace(s[i]) \/ s[i] = "-" \/ s[i] = "'"
        THEN s[i] ELSE " "]

\* _WORD_RE = ^[A-Za-z][A-Za-z\-']*$
IsWord(tok) ==
    /\ tok # <<>>
    /\ IsLetter(tok[1])
    /\ \A i \in 1..Len(tok) : IsLetter(tok[i]) \/ tok[i] = "-" \/ tok[i] = "'"

\* a slip: the pattern asks for three letters or more
IsOnlySCThree(tok) ==
    /\ Len(tok) >= 3
    /\ \A i \in 1..Len(tok) : tok[i] \in {"s", "c", "S", "C"}

\* _ONLY_SC_RE = ^[scSC]{2,}$
IsOnlySC(tok) ==
    /\ Len(tok) >= 2
    /\ \A i \in 1..Len(tok) : tok[i] \in {"s", "c", "S", "C"}

\* tokens[:4]
MaxNameTokens == 4

\* the while loop: trailing one-letter tokens are dropped while two or more
\* tokens are left
RECURSIVE DropTrailingInitials(_)
DropTrailingInitials(tokens) ==
    IF Len(tokens) >= 2 /\ Len(tokens[Len(tokens)]) = 1
    THEN DropTrailingInitials(Upto(tokens, Len(tokens) - 1))
    ELSE tokens

\* str.title: a letter is uppercased unless a letter precedes it
Title(t) ==
    [i \in 1..Len(t) |->
        IF i > 1 /\ IsLetter(t[i - 1]) THEN LowerChar(t[i]) ELSE UpperChar(t[i])]

\* fix_case
fix_case(t) ==
    IF Len(t) >= 3 /\ Lower(Upto(t, 2)) = <<"m", "c">>
    THEN <<"M", "c">> \o Title(From(t, 3))
    ELSE Title(t)

clean_provider_name_raw(c) ==
    LET clean == normalize_spaces(BlankNonNameChars(c))
        tokens == SelectSeq(Split(clean, " "), LAMBDA tok : IsWord(tok) /\ ~IsOnlySC(tok))
        kept == DropTrailingInitials(Upto(tokens, MaxNameTokens))
    IN  IF clean = <<>> THEN <<>>
        ELSE IF Len(tokens) < 2 THEN <<>>
        ELSE Join([i \in 1..Len(kept) |-> fix_case(kept[i])], <<" ">>)

(***************************************************************************)
(* Character codes and decode_caesar_shift.                                *)
(***************************************************************************)
FF == "\f"
LF == "\n"
\* the characters with codes 32..126, in code order ("U+0060" is the grave
\* accent, which a string constant cannot hold)
Printable ==
    Chars(" !\"#$%&'()*+,-./0123456789:;<=>?@ABCDEFGHIJKLMNOPQRSTUVWXYZ")
    \o Chars("[\\]^_") \o <<"U+0060">> \o Chars("abcdefghijklmnopqrstuvwxyz{|}~")
\* the control character with code 3, which the shift turns into a space
ShiftedSpace == "U+0003"
\* the control characters with codes 19..31
LowControls ==
    <<"U+0013", "U+0014", "U+0015", "U+0016", "U+0017", "U+0018", "U+0019",
      "U+001A", "U+001B", "U+001C", "U+001D", "U+001E", "U+001F">>
\* the control characters that stand for ',', '-' and '.' in the numbers of
\* the decoded text (codes 15, 16 and 17)
GroupMark == "U+000F"
MinusMark == "U+0010"
DecimalMark == "U+0011"
NumberMarks == {GroupMark, MinusMark, DecimalMark}

Ord(ch) ==
    CASE ch \in Range(Printable) -> IndexOf(Printable, ch) + 31
      [] ch \in Range(LowControls) -> IndexOf(LowControls, ch) + 18
      [] ch = ShiftedSpace -> 3
      [] ch = "\t" -> 9
      [] ch = LF -> 10
      [] ch = FF -> 12
      [] ch = "\r" -> 13
      [] ch = EnDash -> 8211
      [] ch = EmDash -> 8212

Chr(o) ==
    CASE o = 3 -> ShiftedSpace
      [] o \in 19..31 -> LowControls[o - 18]
      [] o \in 32..126 -> Printable[o - 31]

\* a variant that maps the shifted range back, so that two applications
\* can restore a character
decode_swap(txt, shift, low, high) ==
    [i \in 1..Len(txt) |->
        IF low <= Ord(txt[i]) /\ Ord(txt[i]) <= high
        THEN Chr(Ord(txt[i]) + shift)
        ELSE IF low + shift <= Ord(txt[i]) /\ Ord(txt[i]) <= high + shift
        THEN Chr(Ord(txt[i]) - shift)
        ELSE txt[i]]
\* a variant without the lower limit of the range
decode_no_low(txt, shift, low, high) ==
    [i \in 1..Len(txt) |->
        IF Ord(txt[i]) <= high
        THEN Chr(Ord(txt[i]) + shift)
        ELSE txt[i]]

decode_caesar_shift(txt, shift, low, high) ==
    [i \in 1..Len(txt) |->
        IF low <= Ord(txt[i]) /\ Ord(txt[i]) <= high
        THEN Chr(Ord(txt[i]) + shift)
        ELSE txt[i]]

\* the arguments main passes: decode_caesar_shift(raw, shift=29, low=19, high=94)
MainShift == 29
MainLow == 19
MainHigh == 94
MainDecode(raw) == decode_caesar_shift(raw, MainShift, MainLow, MainHigh)

(***************************************************************************)
(* Pages, rows and provider entries.  A page is the sequence of its lines; *)
(* a row is <<category, current month, year to date>>.                     *)
(***************************************************************************)
\* re.sub(r"[\x00-\x08\x0b-\x0c\x0e-\x1f]", " ", page_text), on one line
BlankControlChars(s) ==
    [i \in 1..Len(s) |->
        IF s[i] \in {FF, ShiftedSpace} \cup NumberMarks \cup Range(LowControls)
        THEN " " ELSE s[i]]

Min(S) == CHOOSE x \in S : \A y \in S : x <= y
Max(S) == CHOOSE x \in S : \A y \in S : y <= x

UnknownProvider == Chars("Unknown Provider")

extract_provider_name_from_page(pg) ==
    LET lines == [i \in 1..Len(pg) |-> BlankControlChars(pg[i])]
        hits == {i \in 1..Len(lines) :
                    Contains(Upper(lines[i]), Chars("NETWORK BASE RATE PAYMENT"))}
        fallback == \E i \in 1..Len(lines) :
                        /\ i <= 10
                        /\ HasLetter(Strip(lines[i]))
                        /\ Len(Strip(lines[i])) <= 60
        \* idx counts lines from 0, as in the source
        idx == IF hits # {} THEN Min(hits) - 1 ELSE IF fallback THEN 0 ELSE 0 - 1
        first == IF idx - 6 > 0 THEN idx - 6 ELSE 0
        named == {j \in first..(idx - 1) :
                     clean_provider_name_raw(Strip(lines[j + 1])) # <<>>}
    IN  IF named = {} THEN UnknownProvider
        ELSE clean_provider_name_raw(Strip(lines[Max(named) + 1]))

\* the rows of the lines of a page that parse as records
RECURSIVE RowsOfLines(_)
RowsOfLines(pg) ==
    IF pg = <<>> THEN <<>>
    ELSE Once(line_to_category_and_numbers(pg[1]),
              LAMBDA r : IF r.none THEN <<>> ELSE <<<<r.category, r.cur, r.ytd>>>>)
         \o RowsOfLines(Tail(pg))

ContainsAny(s, subs) == \E k \in subs : Contains(s, k)

\* the meta/noise keys of parse_provider_page and of parse_group_categories
ProviderPageNoise ==
    { Chars("REPORT:"), Chars("GROUP #"), Chars("RUN DATE"), Chars("PAGE:"),
      Chars("BROOKLIN MEDICAL CENTRE"), Chars("OHIP PAYMENT SUMMARY"),
      Chars("FOR PERIOD"), Chars("REMITTANCE") }
GroupPageNoise ==
    { Chars("REPORT:"), Chars("GROUP #"), Chars("RUN DATE"), Chars("PAGE:"),
      Chars("BROOKLIN MEDICAL CENTRE"), Chars("OHIP PAYMENT SUMMARY") }

\* _META_TOKENS
META_TOKENS ==
    { Chars("REPORT"), Chars("RUN DATE"), Chars("PAGE:"), Chars("GROUP #"),
      Chars("REMITTANCE"), Chars("FOR PERIOD"), Chars("OHIP PAYMENT SUMMARY") }

IsMetaCategory(cat) == ContainsAny(Upper(cat), META_TOKENS)

\* parse_provider_page: <<provider name, rows>>
parse_provider_page(pg) ==
    <<extract_provider_name_from_page(pg),
      SelectSeq(RowsOfLines(pg),
                LAMBDA r : ~ContainsAny(Upper(r[1]), ProviderPageNoise))>>

\* parse_group_categories: a dict keyed by category, in insertion order; a
\* category seen again keeps its place and takes the new amounts
DictPut(before, r) ==
    IF \E i \in 1..Len(before) : before[i][1] = r[1]
    THEN [i \in 1..Len(before) |-> IF before[i][1] = r[1] THEN r ELSE before[i]]
    ELSE Append(before, r)
RECURSIVE DictOfRows(_)
DictOfRows(rows) ==
    IF rows = <<>> THEN <<>>
    ELSE Once(DictOfRows(Upto(rows, Len(rows) - 1)),
              LAMBDA before : DictPut(before, rows[Len(rows)]))

RECURSIVE Concat(_)
Concat(seqs) == IF seqs = <<>> THEN <<>> ELSE seqs[1] \o Concat(Tail(seqs))

parse_group_categories(pgs) ==
    LET firstTwo == Upto(pgs, 2)
        rows == Concat([i \in 1..Len(firstTwo) |-> RowsOfLines(firstTwo[i])])
    IN  Once(SelectSeq(rows, LAMBDA r : ~ContainsAny(Upper(r[1]), GroupPageNoise)),
             LAMBDA kept : DictOfRows(kept))

RECURSIVE SumOf(_, _)
SumOf(rows, k) == IF rows = <<>> THEN 0 ELSE rows[1][k] + SumOf(Tail(rows), k)

TotalKey == Chars("TOTAL CLAIMS PAYABLE")

\* the row the totals loop stops at: the first one whose category holds
\* TOTAL CLAIMS PAYABLE, as a sequence of none or one row
ExplicitTotalRows(rows) ==
    LET all == SelectSeq(rows, LAMBDA r : Contains(Upper(r[1]), TotalKey))
    IN  IF all = <<>> THEN <<>> ELSE <<all[1]>>

\* a slip: the explicit row is overlooked, the totals are always the sums
ComputeTotalsSummed(rows) == <<SumOf(rows, 2), SumOf(rows, 3)>>

\* "Compute totals" of main: <<total_cur, total_ytd>>
ComputeTotals(rows) ==
    LET explicit == ExplicitTotalRows(rows)
    IN  IF explicit # <<>> THEN <<explicit[1][2], explicit[1][3]>>
        ELSE <<SumOf(rows, 2), SumOf(rows, 3)>>

\* a provider entry of main; id is <<>> for None
Entry(name, rows, id) ==
    [name |-> name, rows |-> rows, total_cur |-> ComputeTotals(rows)[1],
     total_ytd |-> ComputeTotals(rows)[2], id |-> id]

\* write_provider_csvs_from_entries: the rows of provider_totals.csv and of
\* provider_categories.csv after the header, amounts in cents
TotalsCsvRows(entries) ==
    [i \in 1..Len(entries) |->
        <<entries[i].name, entries[i].id, entries[i].total_cur, entries[i].total_ytd>>]

CategoriesCsvRows(entries) ==
    Concat([i \in 1..Len(entries) |->
        LET kept == SelectSeq(entries[i].rows, LAMBDA r : ~IsMetaCategory(r[1]))
        IN  [k \in 1..Len(kept) |->
                <<entries[i].name, entries[i].id, kept[k][1], kept[k][2], kept[k][3]>>]])

(***************************************************************************)
(* write_combined_readable_text: the lines of combined_readable.txt.       *)
(***************************************************************************)
\* the decimal digits of a natural number
RECURSIVE DigitsOf(_)
DigitsOf(n) ==
    IF n < 10 THEN <<DigitChars[n + 1]>>
    ELSE DigitsOf(n \div 10) \o <<DigitChars[(n % 10) + 1]>>

\* n written with a comma before every group of three digits
RECURSIVE Grouped(_)
Grouped(n) ==
    IF n < 1000 THEN DigitsOf(n)
    ELSE Grouped(n \div 1000) \o <<",">>
           \o <<DigitChars[((n \div 100) % 10) + 1], DigitChars[((n \div 10) % 10) + 1],
                DigitChars[(n % 10) + 1]>>

\* a slip: no thousands separators, f"{x:.2f}"
FormatAmountPlain(c) ==
    LET mag == IF c < 0 THEN 0 - c ELSE c
    IN  (IF c < 0 THEN <<"-">> ELSE <<>>) \o DigitsOf(mag \div 100) \o <<".">>
          \o <<DigitChars[((mag \div 10) % 10) + 1], DigitChars[(mag % 10) + 1]>>

\* f"{x:,.2f}" of an amount in cents
FormatAmount(c) ==
    LET mag == IF c < 0 THEN 0 - c ELSE c
    IN  (IF c < 0 THEN <<"-">> ELSE <<>>) \o Grouped(mag \div 100) \o <<".">>
          \o <<DigitChars[((mag \div 10) % 10) + 1], DigitChars[(mag % 10) + 1]>>

\* f"{cat}: {cur:,.2f}; {ytd:,.2f}"
AmountsLine(label, cur, ytd) ==
    label \o Chars(": ") \o FormatAmount(cur) \o Chars("; ") \o FormatAmount(ytd)

\* f" (ID: {p['id']})" if p.get("id") else ""
IdSuffix(p) == IF p.id = <<>> THEN <<>> ELSE Chars(" (ID: ") \o p.id \o Chars(")")

\* the header lines for the metadata; a field that is None is <<>>
MetaLines(m) ==
    (IF m.period_from # <<>> /\ m.period_to # <<>>
     THEN <<Chars("Period: ") \o m.period_from \o Chars(" to ") \o m.period_to>>
     ELSE <<>>)
    \o (IF m.remittance_advice # <<>>
        THEN <<Chars("Remittance Advice: ") \o m.remittance_advice>> ELSE <<>>)
    \o (IF m.run_date # <<>> THEN <<Chars("Run Date: ") \o m.run_date>> ELSE <<>>)
    \o (IF m.group_name # <<>> \/ m.group_no # <<>> \/ m.payment_to # <<>>
        THEN <<Chars("Group: ") \o
               Join((IF m.group_name # <<>> THEN <<m.group_name>> ELSE <<>>)
                    \o (IF m.group_no # <<>> THEN <<<<"#">> \o m.group_no>> ELSE <<>>)
                    \o (IF m.payment_to # <<>>
                        THEN <<Chars("(Payment to: ") \o m.payment_to \o <<")">>>>
                        ELSE <<>>),
                    <<" ">>)>>
        ELSE <<>>)

\* the lines of one provider's section of "Provider Details:"
DetailLines(p) ==
    LET kept == SelectSeq(p.rows, LAMBDA r : ~IsMetaCategory(r[1]))
    IN  <<Chars("Provider: ") \o p.name \o IdSuffix(p)>>
        \o [k \in 1..Len(kept) |->
               AmountsLine(Chars("  - ") \o kept[k][1], kept[k][2], kept[k][3])]
        \o <<<<>>>>

\* "\n".join(lines).strip() + "\n", as lines: the blank lines at the end go
RECURSIVE DropBlankTail(_)
DropBlankTail(lines) ==
    IF lines # <<>> /\ Strip(lines[Len(lines)]) = <<>>
    THEN DropBlankTail(Upto(lines, Len(lines) - 1))
    ELSE lines

\* build_text of write_combined_readable_text
build_text(m, group_rows, entries) ==
    DropBlankTail(
        <<Chars("OHIP Payment Summary")>>
        \o MetaLines(m)
        \o <<<<>>, Chars("Group Summary (Current Month; Year to Date):")>>
        \o [k \in 1..Len(group_rows) |->
               AmountsLine(Chars("- ") \o group_rows[k][1], group_rows[k][2], group_rows[k][3])]
        \o <<<<>>, Chars("Providers Index (TOTAL CLAIMS PAYABLE):")>>
        \o [i \in 1..Len(entries) |->
               AmountsLine(Chars("- ") \o entries[i].name \o IdSuffix(entries[i]),
                           entries[i].total_cur, entries[i].total_ytd)]
        \o <<<<>>, Chars("Provider Details:")>>
        \o Concat([i \in 1..Len(entries) |-> DetailLines(entries[i])]))

(***************************************************************************)
(* Inputs of the line parser: record lines '<label> <a> <b>' and free      *)
(* lines put together from up to MaxPieces pieces.                         *)
(***************************************************************************)
MaxPieces == 3

Labels ==
    { Chars("NETWORK BASE RATE PAYMENT"),
      Chars("blended fee for service premium"),
      Chars("YEAR 1 (2024-2025) COMPENSATION INCREASE"),
      Chars("-FOO"),
      Chars("A  B"),
      Chars("FOO:"),
      Chars("FOO -"),
      Chars(": Bar"),
      Chars("X1"),
      Chars("TOTAL 12"),
      Chars("FOO ") \o <<EnDash>> }

\* currency tokens with the value each denotes, in cents
Tokens ==
    { [text |-> Chars("1,234.56"), cents |-> 123456],
      [text |-> Chars("2,345.67"), cents |-> 234567],
      [text |-> Chars("-5.00"), cents |-> 0 - 500],
      [text |-> Chars("12"), cents |-> 1200],
      [text |-> Chars("0.07"), cents |-> 7],
      [text |-> Chars("-1,000"), cents |-> 0 - 100000] }

RecordLine(label, a, b) == label \o <<" ">> \o a.text \o <<" ">> \o b.text

RecordLines == {RecordLine(l, a, b) : l \in Labels, a \in Tokens, b \in Tokens}

\* amounts of four or more integer digits written without separators
PlainTokens ==
    { [text |-> Chars("12345.67"), cents |-> 1234567],
      [text |-> Chars("23456.78"), cents |-> 2345678],
      [text |-> Chars("1000"), cents |-> 100000] }

PlainRecordLines ==
    {RecordLine(l, a, b) : l \in Labels, a \in PlainTokens, b \in PlainTokens}

Pieces ==
    { Chars("FOO"), <<" ">>, <<"-">>, <<":">>, <<";">>, <<"7">>,
      Chars("2.50"), Chars("1,234"), Chars("12345.67") }

RECURSIVE PieceLines(_)
PieceLines(n) ==
    IF n = 0 THEN {<<>>}
    ELSE LET shorter == PieceLines(n - 1)
         IN  shorter \cup {l \o p : l \in shorter, p \in Pieces}

FreeLines == PieceLines(MaxPieces) \cup {Chars("---"), Chars("   ")}

LineInputs == RecordLines \cup PlainRecordLines \cup FreeLines

(***************************************************************************)
(* Inputs of normalize_category: labels of the table and others, written   *)
(* in several styles.                                                      *)
(***************************************************************************)
NormBases ==
    CanonValues \cup
    { Chars("FEE-FOR-SERVICE PREMIUM"),
      Chars("FEE FOR SERVICE PREMIUM"),
      Chars("YEAR1(2024-2025)COMPENSATIONINCREASE"),
      Chars("YEAR 2 (2025-2026) COMPENSATION INCREASE"),
      Chars("Foo Bar-Baz") }

DashStyles == {"keep", "space", "spaced", "hyphen"}
CaseStyles == {"keep", "lower"}
PadStyles == {"none", "blank", "colon", "colon_tab"}
GapStyles == {"single", "double"}

Styled(base, dash, case, pad, gap) ==
    LET s1 == CASE dash = "keep" -> base
                [] dash = "space" -> Replace(base, <<"-">>, <<" ">>)
                [] dash = "spaced" -> Replace(base, <<"-">>, Chars(" - "))
                [] dash = "hyphen" -> Replace(base, <<" ">>, <<"-">>)
        s2 == IF case = "lower" THEN Lower(s1) ELSE s1
        s3 == IF gap = "double" THEN Replace(s2, <<" ">>, <<" ", " ">>) ELSE s2
    IN  CASE pad = "none" -> s3
          [] pad = "blank" -> <<" ", "\t">> \o s3 \o <<" ">>
          [] pad = "colon" -> s3 \o <<":">>
          [] pad = "colon_tab" -> s3 \o <<":", "\t">>

NormInputs ==
    {Styled(b, d, c, p, g) : b \in NormBases, d \in DashStyles, c \in CaseStyles,
                             p \in PadStyles, g \in GapStyles}

(***************************************************************************)
(* Inputs of clean_provider_name_raw: up to MaxCandWords words, one blank  *)
(* between them, and some candidates with other spacing and punctuation.   *)
(***************************************************************************)
MaxCandWords == 5

CandWords == {Chars("JOHN"), Chars("Q."), Chars("SC"), Chars("SMITH"), Chars("mcdonald")}

RECURSIVE WordLists(_)
WordLists(n) ==
    IF n = 0 THEN {<<>>}
    ELSE LET shorter == WordLists(n - 1)
         IN  shorter \cup {Append(l, w) : l \in shorter, w \in CandWords}

NameInputs ==
    {Join(l, <<" ">>) : l \in WordLists(MaxCandWords)} \cup
    { Chars("JOHN   Q.  SC SMITH"),
      Chars("O'NEIL mc-x A B"),
      Chars("-x JOHN 7 SMITH C"),
      Chars("anne-marie\tscs  LEE") }

(***************************************************************************)
(* Inputs of main's building and writing: a document is two summary pages  *)
(* followed by provider pages of up to MaxPageLines lines.                 *)
(***************************************************************************)
MaxPageLines == 2

ProviderLines ==
    { Chars("JOHN SMITH"),
      Chars("NETWORK BASE RATE PAYMENT 1,234.56 2,345.67"),
      Chars("Total Claims Payable 1,300.00 2,400.00"),
      Chars("ACCESS BONUS PAYMENT -65.56 54.33"),
      Chars("REPORT ADJ 10.00 20.00") }

RECURSIVE PagesOf(_)
PagesOf(n) ==
    IF n = 0 THEN {<<>>}
    ELSE LET shorter == PagesOf(n - 1)
         IN  shorter \cup {Append(pg, l) : pg \in shorter, l \in ProviderLines}

LaterPage ==
    << Chars("MARY JONES"),
       Chars("NETWORK BASE RATE PAYMENT 7.00 8.00"),
       Chars("AGE PREMIUM PAYMENT 0.50 1,000,000.25") >>

SummaryPages ==
    { << <<>>, <<>> >>,
      << << Chars("OHIP PAYMENT SUMMARY 1 2"),
            Chars("GROUP MANAGEMENT LEADERSHIP PAYMENT 100.00 1,200.00") >>,
         << Chars("ACCESS BONUS PAYMENT: 5.00 6.00"),
            Chars("GROUP MANAGEMENT LEADERSHIP PAYMENT 100.00 1,300.00") >> >> }

Documents ==
    {sp : sp \in SummaryPages}
    \cup {sp \o <<pg, LaterPage>> : sp \in SummaryPages, pg \in PagesOf(MaxPageLines)}

\* parse_metadata when no pattern matches: every field None, written <<>>
NoMeta ==
    [period_from |-> <<>>, period_to |-> <<>>, remittance_advice |-> <<>>,
     run_date |-> <<>>, group_name |-> <<>>, payment_to |-> <<>>, group_no |-> <<>>]

\* what parse_metadata may find on the first page
Metas ==
    { NoMeta,
      [period_from |-> Chars("2024-04-01"), period_to |-> Chars("2024-04-30"),
       remittance_advice |-> Chars("April 2024"), run_date |-> Chars("2024-05-02 10:15 AM"),
       group_name |-> Chars("BROOKLIN"), payment_to |-> Chars("GROUP"),
       group_no |-> Chars("AB12")] }

\* in hybrid mode, the name read from the decoded page and the id the
\* recovery ends with (<<>> for None)
DecodedIdentities ==
    { <<Chars("John Smith"), <<>>>>, <<Chars("Mary Jones"), Chars("123456")>> }

(***************************************************************************)
(* The specifications: each draws an input and applies the function.       *)
(***************************************************************************)
LineIdle == line = <<>> /\ lineResult = Pending
NormIdle == cat_raw = <<>> /\ catResult = Pending
NameIdle == cand = <<>> /\ nameResult = Pending
ExportIdle ==
    /\ hybrid = FALSE
    /\ pages = <<>>
    /\ grp_rows = <<>>
    /\ provider_entries = <<>>
    /\ meta = NoMeta
    /\ csv_totals = <<>>
    /\ csv_categories = <<>>
    /\ readable = <<>>
    /\ stage = "idle"
MainIdle ==
    /\ args = <<>>
    /\ env = <<>>
    /\ pc = "idle"
    /\ text = Pending
    /\ decoded_text = Pending
    /\ provider_indices = <<>>
    /\ loop_i = 0
    /\ provider_id = <<>>
    /\ summary_left = 0
    /\ entry_ids = <<>>
    /\ written = {}
    /\ exit_code = Pending
    /\ temp_dirs = {}
    /\ temp_made = {}
    /\ commands = <<>>
    /\ attempted = {}
    /\ swallowed = {}
DecodeIdle ==
    /\ dec_text = <<>>
    /\ dec_args = <<>>
    /\ dec_once = Pending
    /\ dec_twice = Pending
CoverIdle ==
    /\ folder = <<>>
    /\ cover = Pending
SectionsIdle ==
    /\ sec_fn = "idle"
    /\ section_name = ""
    /\ sec_pages = <<>>
    /\ sec_pg = 0
    /\ sec_ln = 0
    /\ payment_type = ""
    /\ expect_matrix = FALSE
    /\ sec_rows = <<>>
ScanIdle ==
    /\ scan_name = <<>>
    /\ scan_pages = <<>>
    /\ scan_pg = 0
    /\ scan_ln = 0
    /\ scan_id = Pending
AgainIdle == cat_again = Pending
EmbedIdle ==
    /\ emb_in = <<>>
    /\ emb_file = <<>>
    /\ emb_cover = Pending
    /\ emb_pc = "idle"
    /\ emb_result = Pending
MoreIdle == ScanIdle /\ AgainIdle /\ EmbedIdle
AuxIdle == DecodeIdle /\ CoverIdle /\ SectionsIdle /\ MoreIdle

InitLine ==
    /\ line \in LineInputs
    /\ lineResult = Pending
    /\ NormIdle
    /\ NameIdle
    /\ ExportIdle
    /\ MainIdle
    /\ AuxIdle

ParseLine ==
    /\ lineResult = Pending
    /\ lineResult' = Returned(line_to_category_and_numbers(line))
    /\ UNCHANGED <<line, cat_raw, catResult, cand, nameResult, exportVars, mainVars, auxVars>>

NextLine == ParseLine

SpecLine == InitLine /\ [][NextLine]_vars

InitNorm ==
    /\ cat_raw \in NormInputs
    /\ catResult = Pending
    /\ LineIdle
    /\ NameIdle
    /\ ExportIdle
    /\ MainIdle
    /\ AuxIdle

Normalize ==
    /\ catResult = Pending
    /\ catResult' = Returned(normalize_category(cat_raw))
    /\ UNCHANGED <<cat_raw, line, lineResult, cand, nameResult, exportVars, mainVars, auxVars>>

\* normalize_category applied to its own result
NormalizeAgain ==
    /\ catResult # Pending
    /\ cat_again = Pending
    /\ cat_again' = Returned(normalize_category(catResult[1]))
    /\ UNCHANGED <<cat_raw, catResult, line, lineResult, cand, nameResult, exportVars,
                   mainVars, decodeVars, coverVars, sectionVars, scanVars, embedVars>>

NextNorm == Normalize \/ NormalizeAgain

SpecNorm == InitNorm /\ [][NextNorm]_vars

InitName ==
    /\ cand \in NameInputs
    /\ nameResult = Pending
    /\ LineIdle
    /\ NormIdle
    /\ ExportIdle
    /\ MainIdle
    /\ AuxIdle

CleanName ==
    /\ nameResult = Pending
    /\ nameResult' = Returned(clean_provider_name_raw(cand))
    /\ UNCHANGED <<cand, line, lineResult, cat_raw, catResult, exportVars, mainVars, auxVars>>

NextName == CleanName

SpecName == InitName /\ [][NextName]_vars

(***************************************************************************)
(* Specification SpecDecode: decode_caesar_shift applied to a text, and to *)
(* its own result, with the default arguments and with the ones of main.   *)
(***************************************************************************)
MaxDecodeLen == 3
\* the defaults of the signature: shift=29, low=33, high=94
DefaultShift == 29
DefaultLow == 33
DefaultHigh == 94
\* one character of every region of the code line: line feed, form feed, a
\* control character of 19..31, the space, both ends of 33..94 and beyond it
DecodeAlphabet == {LF, FF, "U+0013", " ", "!", "A", "^", "_", "a", "{"}
DecodeTexts == UNION {[1..n -> DecodeAlphabet] : n \in 0..MaxDecodeLen}
DecodeArgs ==
    {[shift |-> DefaultShift, low |-> DefaultLow, high |-> DefaultHigh],
     [shift |-> MainShift, low |-> MainLow, high |-> MainHigh]}
InRange(ch, a) == a.low <= Ord(ch) /\ Ord(ch) <= a.high

InitDecode ==
    /\ LineIdle
    /\ NormIdle
    /\ NameIdle
    /\ ExportIdle
    /\ MainIdle
    /\ dec_text \in DecodeTexts
    /\ dec_args \in DecodeArgs
    /\ dec_once = Pending
    /\ dec_twice = Pending
    /\ CoverIdle
    /\ SectionsIdle
    /\ MoreIdle

DecodeOnce ==
    /\ dec_once = Pending
    /\ dec_once' = Returned(decode_caesar_shift(dec_text, dec_args.shift,
                                                 dec_args.low, dec_args.high))
    /\ UNCHANGED <<dec_text, dec_args, dec_twice>>
    /\ UNCHANGED <<line, lineResult, cat_raw, catResult, cand, nameResult,
                   exportVars, mainVars, coverVars, sectionVars, moreVars>>

DecodeTwice ==
    /\ dec_once # Pending
    /\ dec_twice = Pending
    /\ dec_twice' = Returned(decode_caesar_shift(dec_once[1], dec_args.shift,
                                                  dec_args.low, dec_args.high))
    /\ UNCHANGED <<dec_text, dec_args, dec_once>>
    /\ UNCHANGED <<line, lineResult, cat_raw, catResult, cand, nameResult,
                   exportVars, mainVars, coverVars, sectionVars, moreVars>>

NextDecode == DecodeOnce \/ DecodeTwice

SpecDecode == InitDecode /\ [][NextDecode]_vars

(***************************************************************************)
(* Specification SpecCover: find_cover_for_audio (psp_embed_cover.py) for  *)
(* the audio file song.mp3 in a folder of files.  A file is absent, there  *)
(* but not readable (read_bytes raises), or readable; the bytes of a file  *)
(* are identified by its name.                                             *)
(***************************************************************************)
MaxOtherFiles == 2
AudioStem == Chars("song")
JPEG_EXTS == {Chars(".jpg"), Chars(".jpeg")}
\* audio_path.with_suffix(ext) for the extensions of JPEG_EXTS
SameNameCovers == {AudioStem \o ext : ext \in JPEG_EXTS}
\* a variant that looks for folder.jpg before cover.jpg
NamedCoversFolderFirst ==
    <<Chars("folder.jpg"), Chars("cover.jpg"), Chars("cover.jpeg"), Chars("folder.jpeg")>>
NamedCovers ==
    <<Chars("cover.jpg"), Chars("folder.jpg"), Chars("cover.jpeg"), Chars("folder.jpeg")>>
\* further files of the folder
OtherNames == <<Chars("back.jpg"), Chars("notes.txt"), Chars("scan.jpeg")>>
OtherFiles == {OtherNames[k] : k \in 1..Min({MaxOtherFiles, Len(OtherNames)})}
FolderNames == SameNameCovers \cup Range(NamedCovers) \cup OtherFiles
FileStates == {"absent", "unreadable", "readable"}
NoCover == <<>>

\* cand.exists() and cand.read_bytes() does not raise
Readable(files, name) == name \in DOMAIN files /\ files[name] = "readable"
\* the names the pattern "*.jp*g" matches
GlobMatches(name) ==
    \E i \in 1..Len(name) :
        /\ OccursAt(name, i, Chars(".jp"))
        /\ i + 3 <= Len(name)
        /\ name[Len(name)] = "g"
\* the first candidate of the sequence that can be read, or None
RECURSIVE FirstReadable(_, _)
FirstReadable(files, cands) ==
    IF cands = <<>> THEN NoCover
    ELSE IF Readable(files, Head(cands)) THEN Head(cands)
    ELSE FirstReadable(files, Tail(cands))
\* the possible results: the loop over the set JPEG_EXTS and the loop over
\* glob() visit their candidates in no fixed order, so each returns any of
\* its readable candidates
find_cover_for_audio(files) ==
    LET same == {n \in SameNameCovers : Readable(files, n)}
        named == FirstReadable(files, NamedCovers)
        globbed == {n \in DOMAIN files :
                       files[n] # "absent" /\ GlobMatches(n) /\ Readable(files, n)}
    IN  IF same # {} THEN same
        ELSE IF named # NoCover THEN {named}
        ELSE IF globbed # {} THEN globbed
        ELSE {NoCover}

InitCover ==
    /\ LineIdle
    /\ NormIdle
    /\ NameIdle
    /\ ExportIdle
    /\ MainIdle
    /\ DecodeIdle
    /\ folder \in [FolderNames -> FileStates]
    /\ cover = Pending
    /\ SectionsIdle
    /\ MoreIdle

FindCover ==
    /\ cover = Pending
    /\ \E found \in find_cover_for_audio(folder) : cover' = Returned(found)
    /\ UNCHANGED <<line, lineResult, cat_raw, catResult, cand, nameResult,
                   exportVars, mainVars, decodeVars, sectionVars, moreVars, folder>>

NextCover == FindCover

SpecCover == InitCover /\ [][NextCover]_vars

(***************************************************************************)
(* Specification SpecSections: the section iterators over decoded pages,   *)
(* _iter_group_sections_from_decoded and                                   *)
(* _iter_provider_section_rows_from_decoded, one line at a time.  A page   *)
(* is the sequence of its lines (pg.splitlines()).                         *)
(***************************************************************************)
MaxSectionLines == 3
NoNumber == <<>>
NoRow == <<>>
\* payment_type = None
NoPaymentType == ""

\* the pieces between single characters of the set
RECURSIVE SplitOnSet(_, _, _)
SplitOnSet(s, i, set) ==
    LET rest == {j \in i..Len(s) : s[j] \in set}
    IN  IF rest = {} THEN <<SubSeq(s, i, Len(s))>>
        ELSE LET j == CHOOSE k \in rest : \A m \in rest : k <= m
             IN  <<SubSeq(s, i, j - 1)>> \o SplitOnSet(s, j + 1, set)
AllDigits(s) == s # <<>> /\ \A i \in 1..Len(s) : IsDigit(s[i])
\* -?\d+
SignedDigits(s) == IF s # <<>> /\ s[1] = "-" THEN AllDigits(Tail(s)) ELSE AllDigits(s)
SignedCents(int_part, frac) ==
    LET neg == int_part[1] = "-"
        digits == IF neg THEN Tail(int_part) ELSE int_part
        pad == SubSeq(frac \o <<"0", "0">>, 1, 2)
        abs == 100 * DigitsValue(digits) + DigitsValue(pad)
    IN  IF neg THEN 0 - abs ELSE abs
\* (-?\d+(?:\s\d{3})+)\s(\d{2}) on the pieces between white characters
GroupedMatch(toks) ==
    /\ Len(toks) >= 3
    /\ SignedDigits(toks[1])
    /\ \A k \in 2..(Len(toks) - 1) : Len(toks[k]) = 3 /\ AllDigits(toks[k])
    /\ Len(toks[Len(toks)]) = 2 /\ AllDigits(toks[Len(toks)])
\* (-?\d+)\s+(\d{2})
SimpleMatch(toks) ==
    /\ Len(toks) >= 2
    /\ SignedDigits(toks[1])
    /\ \A k \in 2..(Len(toks) - 1) : toks[k] = <<>>
    /\ Len(toks[Len(toks)]) = 2 /\ AllDigits(toks[Len(toks)])
\* float(s) of a text of digits, '.' and '-'
FloatOf(s) ==
    LET neg == s # <<>> /\ s[1] = "-"
        body == IF neg THEN Tail(s) ELSE s
        parts == Split(body, ".")
        whole == IF parts[1] = <<>> THEN <<"0">> ELSE parts[1]
        int_part == IF neg THEN <<"-">> \o whole ELSE whole
    IN  IF Len(parts) = 1 /\ AllDigits(body) THEN Returned(SignedCents(int_part, <<>>))
        ELSE IF /\ Len(parts) = 2
                /\ parts[1] \o parts[2] # <<>>
                /\ AllDigits(parts[1] \o parts[2])
        THEN Returned(SignedCents(int_part, parts[2]))
        ELSE NoNumber
\* token.replace("\x0f", ",").replace("\x11", ".").replace("\x10", "-")
ReplaceMarks(token) ==
    [i \in 1..Len(token) |->
        IF token[i] = GroupMark THEN ","
        ELSE IF token[i] = DecimalMark THEN "."
        ELSE IF token[i] = MinusMark THEN "-"
        ELSE token[i]]
\* _decoded_num_to_float, in cents (digits after the second decimal are
\* dropped)
decoded_num_to_float(token) ==
    LET orig == ReplaceMarks(token)
        trim == Strip(orig)
        toks == SplitOnSet(trim, 1, WhiteSet)
        kept == SelectSeq(orig, LAMBDA c : IsDigit(c) \/ c = "." \/ c = "-")
    IN  IF token = <<>> THEN NoNumber
        ELSE IF "." \notin Range(trim) /\ GroupedMatch(toks)
        THEN Returned(SignedCents(Concat(SubSeq(toks, 1, Len(toks) - 1)), toks[Len(toks)]))
        ELSE IF "." \notin Range(trim) /\ SimpleMatch(toks)
        THEN Returned(SignedCents(toks[1], toks[Len(toks)]))
        ELSE FloatOf(kept)

\* a variant that looks for TOTAL in the label as written
HasTotalAsWritten(label) == Contains(label, Chars("TOTAL"))
\* "TOTAL" in label.upper()
HasTotal(label) == Contains(Upper(label), Chars("TOTAL"))
\* the row of a line inside a section matrix, or no row: the line is split
\* at '=', the label normalized, totals lines and lines without two amounts
\* are skipped
RowOf(raw) ==
    LET split == Split(raw, "=")
        parts == [k \in 1..Len(split) |-> Strip(split[k])]
        label == normalize_category(parts[1])
        cur == decoded_num_to_float(parts[Len(parts) - 1])
        ytd == decoded_num_to_float(parts[Len(parts)])
    IN  IF "=" \notin Range(raw) \/ Len(parts) < 3 THEN NoRow
        ELSE IF HasTotal(label) THEN NoRow
        ELSE IF cur = NoNumber \/ ytd = NoNumber THEN NoRow
        ELSE <<[label |-> label, cur |-> cur[1], ytd |-> ytd[1]]>>

\* the tests on the upper-cased line
IsProviderHeader(up) == Contains(up, Chars("GROUP PAYMENTS TO PROVIDER"))
IsAllProvidersHeader(up) == Contains(up, Chars("GROUP PAYMENTS ALL PROVIDERS"))
IsSummaryAllHeader(up) ==
    Contains(up, Chars("SUMMARY")) /\ Contains(up, Chars("ALL PROVIDERS"))
IsGroupHeader(up) ==
    Contains(up, Chars("GROUP PAYMENTS")) /\ ~Contains(up, Chars("EXCEPTION"))
IsExceptionHeader(up) == Contains(up, Chars("EXCEPTION PAYMENTS"))
HasMatrixHeader(up) ==
    Contains(up, Chars("CURRENT MONTH")) /\ Contains(up, Chars("YEAR TO DATE"))

SectionState(pt, em, row) == [payment_type |-> pt, expect_matrix |-> em, row |-> row]
\* a variant in which the header of the all-providers section keeps the
\* matrix flag
GroupStepKeepsFlag(raw, pt, em) ==
    LET up == Upper(BlankControlChars(raw))
    IN  IF IsProviderHeader(up) THEN SectionState(NoPaymentType, FALSE, NoRow)
        ELSE IF IsAllProvidersHeader(up)
        THEN SectionState("GROUP PAYMENTS ALL PROVIDERS", em, NoRow)
        ELSE IF IsSummaryAllHeader(up)
        THEN SectionState("SUMMARY ALL PROVIDERS", em, NoRow)
        ELSE IF IsGroupHeader(up)
        THEN SectionState("GROUP PAYMENTS", HasMatrixHeader(up) \/ em, NoRow)
        ELSE IF IsExceptionHeader(up)
        THEN SectionState("EXCEPTION PAYMENTS", HasMatrixHeader(up) \/ em, NoRow)
        ELSE IF pt # NoPaymentType /\ HasMatrixHeader(up) THEN SectionState(pt, TRUE, NoRow)
        ELSE IF pt = NoPaymentType \/ ~em THEN SectionState(pt, em, NoRow)
        ELSE SectionState(pt, em, RowOf(BlankControlChars(raw)))
\* a variant in which the header of a provider page leaves the section open
GroupStepProviderOpen(raw, pt, em) ==
    LET up == Upper(BlankControlChars(raw))
    IN  IF IsProviderHeader(up) THEN SectionState(pt, em, NoRow)
        ELSE IF IsAllProvidersHeader(up)
        THEN SectionState("GROUP PAYMENTS ALL PROVIDERS", FALSE, NoRow)
        ELSE IF IsSummaryAllHeader(up)
        THEN SectionState("SUMMARY ALL PROVIDERS", FALSE, NoRow)
        ELSE IF IsGroupHeader(up)
        THEN SectionState("GROUP PAYMENTS", HasMatrixHeader(up) \/ em, NoRow)
        ELSE IF IsExceptionHeader(up)
        THEN SectionState("EXCEPTION PAYMENTS", HasMatrixHeader(up) \/ em, NoRow)
        ELSE IF pt # NoPaymentType /\ HasMatrixHeader(up) THEN SectionState(pt, TRUE, NoRow)
        ELSE IF pt = NoPaymentType \/ ~em THEN SectionState(pt, em, NoRow)
        ELSE SectionState(pt, em, RowOf(BlankControlChars(raw)))
\* the body of the loop over the lines of _iter_group_sections_from_decoded:
\* the state after the line and the row it yields, if any
GroupStep(raw, pt, em) ==
    LET up == Upper(BlankControlChars(raw))
    IN  IF IsProviderHeader(up) THEN SectionState(NoPaymentType, FALSE, NoRow)
        ELSE IF IsAllProvidersHeader(up)
        THEN SectionState("GROUP PAYMENTS ALL PROVIDERS", FALSE, NoRow)
        ELSE IF IsSummaryAllHeader(up)
        THEN SectionState("SUMMARY ALL PROVIDERS", FALSE, NoRow)
        ELSE IF IsGroupHeader(up)
        THEN SectionState("GROUP PAYMENTS", HasMatrixHeader(up) \/ em, NoRow)
        ELSE IF IsExceptionHeader(up)
        THEN SectionState("EXCEPTION PAYMENTS", HasMatrixHeader(up) \/ em, NoRow)
        ELSE IF pt # NoPaymentType /\ HasMatrixHeader(up) THEN SectionState(pt, TRUE, NoRow)
        ELSE IF pt = NoPaymentType \/ ~em THEN SectionState(pt, em, NoRow)
        ELSE SectionState(pt, em, RowOf(BlankControlChars(raw)))

SectionNames == {"GROUP PAYMENTS TO PROVIDER", "PROVIDER SUMMARY"}
\* the body of the loop of _iter_provider_section_rows_from_decoded
ProviderStep(raw, section, em) ==
    LET up == Upper(BlankControlChars(raw))
    IN  IF section = "GROUP PAYMENTS TO PROVIDER" /\ IsProviderHeader(up)
        THEN SectionState(NoPaymentType, FALSE, NoRow)
        ELSE IF section = "PROVIDER SUMMARY" /\ Contains(up, Chars("PROVIDER SUMMARY"))
        THEN SectionState(NoPaymentType, FALSE, NoRow)
        ELSE IF HasMatrixHeader(up) THEN SectionState(NoPaymentType, TRUE, NoRow)
        ELSE IF ~em THEN SectionState(NoPaymentType, em, NoRow)
        ELSE SectionState(NoPaymentType, em, RowOf(BlankControlChars(raw)))

\* the lines of the decoded pages
ProviderHeaderLine == Chars("GROUP PAYMENTS TO PROVIDER")
AllProvidersLine == Chars("Group Payments All Providers")
GroupHeaderLine == Chars("GROUP PAYMENTS")
GroupMatrixLine == Chars("GROUP PAYMENTS (CURRENT MONTH=YEAR TO DATE)")
ExceptionHeaderLine == Chars("EXCEPTION PAYMENTS")
MatrixLine == Chars("CURRENT MONTH=YEAR TO DATE")
RowLine == Chars("Fees=1 00=2 50")
TotalLine == Chars("Sub Total=3 00=4 00")
SummaryHeaderLine == Chars("PROVIDER SUMMARY")
BadAmountLine == Chars("Bonus=x=1 00")
\* a row with the amounts -1.00 and -2.50 in the marks of the decoded text
MarkedRowLine ==
    Chars("Adj=") \o <<MinusMark, "1", DecimalMark, "0", "0", "=">>
    \o <<MinusMark, "2", DecimalMark, "5", "0">>
GroupLines ==
    {ProviderHeaderLine, AllProvidersLine, GroupHeaderLine, GroupMatrixLine,
     ExceptionHeaderLine, MatrixLine, RowLine, TotalLine, MarkedRowLine}
ProviderPageLines ==
    {ProviderHeaderLine, SummaryHeaderLine, MatrixLine, RowLine, TotalLine,
     BadAmountLine}
LineSeqs(lines) == UNION {[1..n -> lines] : n \in 0..MaxSectionLines}
\* a row of the PROVIDER SUMMARY matrix
SummaryRowLine == Chars("Net=5 00=6 00")
\* provider pages that hold both sections, each with its matrix and a row
TwoSectionPages ==
    { <<ProviderHeaderLine, MatrixLine, RowLine,
        SummaryHeaderLine, MatrixLine, SummaryRowLine>>,
      <<SummaryHeaderLine, MatrixLine, SummaryRowLine,
        ProviderHeaderLine, MatrixLine, RowLine>> }
\* the lines on one page, or on two pages
PagesFrom(ls) ==
    {<<ls>>} \cup {<<SubSeq(ls, 1, k), SubSeq(ls, k + 1, Len(ls))>> : k \in 1..(Len(ls) - 1)}

InitSections ==
    /\ LineIdle
    /\ NormIdle
    /\ NameIdle
    /\ ExportIdle
    /\ MainIdle
    /\ DecodeIdle
    /\ CoverIdle
    /\ MoreIdle
    /\ \/ /\ sec_fn = "group"
          /\ section_name = NoPaymentType
          /\ \E ls \in LineSeqs(GroupLines) : sec_pages \in PagesFrom(ls)
       \/ /\ sec_fn = "provider"
          /\ section_name \in SectionNames
          /\ \E ls \in LineSeqs(ProviderPageLines) \cup TwoSectionPages :
                sec_pages = <<ls>>
    /\ sec_pg = 1
    /\ sec_ln = 1
    /\ payment_type = NoPaymentType
    /\ expect_matrix = FALSE
    /\ sec_rows = <<>>

sectionFrame ==
    <<line, lineResult, cat_raw, catResult, cand, nameResult, exportVars, mainVars,
      decodeVars, coverVars, moreVars, sec_fn, section_name, sec_pages>>
\* the line the iterator is at
AtLine == sec_pg <= Len(sec_pages) /\ sec_ln <= Len(sec_pages[sec_pg])
CurrentLine == sec_pages[sec_pg][sec_ln]
\* the row of the step, as the iterator returns it
Yielded(st) ==
    IF st.row = NoRow THEN <<>>
    ELSE IF sec_fn = "group"
    THEN <<[payment_type |-> st.payment_type, label |-> st.row[1].label,
            cur |-> st.row[1].cur, ytd |-> st.row[1].ytd]>>
    ELSE st.row

\* for raw in lines: one pass of the loop body of
\* _iter_group_sections_from_decoded
GroupLine ==
    /\ sec_fn = "group"
    /\ AtLine
    /\ \E st \in {GroupStep(CurrentLine, payment_type, expect_matrix)} :
          /\ payment_type' = st.payment_type
          /\ expect_matrix' = st.expect_matrix
          /\ sec_rows' = sec_rows \o Yielded(st)
    /\ sec_ln' = sec_ln + 1
    /\ UNCHANGED <<sectionFrame, sec_pg>>

\* for pg in pages_dec: the next page, with the section state as it is
NextPage ==
    /\ sec_fn = "group"
    /\ sec_pg <= Len(sec_pages)
    /\ sec_ln > Len(sec_pages[sec_pg])
    /\ sec_pg' = sec_pg + 1
    /\ sec_ln' = 1
    /\ UNCHANGED <<sectionFrame, payment_type, expect_matrix, sec_rows>>

\* one pass of the loop body of _iter_provider_section_rows_from_decoded
ProviderLine ==
    /\ sec_fn = "provider"
    /\ AtLine
    /\ \E st \in {ProviderStep(CurrentLine, section_name, expect_matrix)} :
          /\ expect_matrix' = st.expect_matrix
          /\ sec_rows' = sec_rows \o Yielded(st)
    /\ sec_ln' = sec_ln + 1
    /\ UNCHANGED <<sectionFrame, sec_pg, payment_type>>

NextSections == GroupLine \/ NextPage \/ ProviderLine

SpecSections == InitSections /\ [][NextSections]_vars

(***************************************************************************)
(* Specification SpecScan: _find_id_for_provider_in_ocr_pages, the scan of *)
(* the OCR pages for a line with the provider's name and a run of digits,  *)
(* one line at a time.                                                     *)
(***************************************************************************)
MaxScanLines == 3
\* the result None
NoneId == <<>>
\* the length an id must have: len(digits) >= 5
MinIdDigits == 5

\* re.split(r"[^A-Za-z]+", provider_name): the runs of letters
RECURSIVE LetterRuns(_, _)
LetterRuns(s, i) ==
    IF i > Len(s) THEN <<>>
    ELSE IF ~IsLetter(s[i]) THEN LetterRuns(s, i + 1)
    ELSE LET after == {j \in i..Len(s) : ~IsLetter(s[j])}
             stop == IF after = {} THEN Len(s) + 1 ELSE Min(after)
         IN  <<SubSeq(s, i, stop - 1)>> \o LetterRuns(s, stop)
\* toks: the runs of two letters or more
NameToks(name) == SelectSeq(LetterRuns(name, 1), LAMBDA t : Len(t) >= 2)
\* re.search(rf"\b{t}\b", line_up) for a token of letters
WordIn(t, ln) ==
    \E i \in 1..Len(ln) :
        /\ OccursAt(ln, i, t)
        /\ (i = 1 \/ ~IsWordChar(ln[i - 1]))
        /\ (i + Len(t) > Len(ln) \/ ~IsWordChar(ln[i + Len(t)]))
\* prefer: the line suggests identity
Prefer(line_up) ==
    \/ Contains(line_up, Chars("PROVIDER"))
    \/ Contains(line_up, Chars("TOTAL"))
    \/ Contains(line_up, Chars("GROUP"))
\* [0-9\s:\-\.]
IsChunkChar(c) == IsDigit(c) \/ IsSpace(c) \/ c \in {":", "-", "."}
\* the end of the run of chunk characters that starts at i (i - 1 if none)
ChunkEnd(s, i) ==
    LET after == {j \in i..Len(s) : ~IsChunkChar(s[j])}
    IN  IF after = {} THEN Len(s) ELSE Min(after) - 1
\* re.search(r"([0-9][0-9\s:\-\.]{4,}[0-9])", raw): the leftmost start, the
\* longest match from it; <<>> when there is none
SpacedChunk(raw) ==
    LET ends(i) == {e \in (i + 5)..ChunkEnd(raw, i + 1) : IsDigit(raw[e])}
        starts == {i \in 1..Len(raw) : IsDigit(raw[i]) /\ ends(i) # {}}
    IN  IF starts = {} THEN <<>>
        ELSE SubSeq(raw, Min(starts), Max(ends(Min(starts))))
\* re.search(r"\b([0-9]{5,})\b", raw)
DigitChunk(raw) ==
    LET run(i) == DigitRun(raw, i, Len(raw))
        starts == {i \in 1..Len(raw) :
                      /\ IsDigit(raw[i])
                      /\ (i = 1 \/ ~IsWordChar(raw[i - 1]))
                      /\ run(i) >= 5
                      /\ (i + run(i) > Len(raw) \/ ~IsWordChar(raw[i + run(i)]))}
    IN  IF starts = {} THEN <<>>
        ELSE SubSeq(raw, Min(starts), Min(starts) + run(Min(starts)) - 1)
\* the body of the loop over the lines: the digits the line returns, or
\* NoneId when the scan goes on with the next line
LineId(raw, toks) ==
    LET line_up == Upper(raw)
        spaced == SpacedChunk(raw)
        m == IF spaced # <<>> THEN spaced ELSE DigitChunk(raw)
        digits == SelectSeq(m, IsDigit)
    IN  IF \E k \in 1..Len(toks) : ~WordIn(Upper(toks[k]), line_up) THEN NoneId
        ELSE IF m = <<>> THEN NoneId
        ELSE IF Len(digits) < MinIdDigits THEN NoneId
        ELSE IF Prefer(line_up) THEN digits
        ELSE digits

\* the lines of the OCR pages
KeywordIdLine == Chars("PROVIDER JOHN SMITH 010255")
PlainIdLine == Chars("John Smith 555123")
AmountLine == Chars("SMITH, JOHN TOTAL 1,234.56")
GluedLine == Chars("JOHNSMITH GROUP 777777")
ShortLine == Chars("John Smith 12-34")
OtherNameLine == Chars("MARY JONES 65 43 21")
ScanLines ==
    {KeywordIdLine, PlainIdLine, AmountLine, GluedLine, ShortLine, OtherNameLine}
ScanNames == {Chars("John Smith"), Chars("Mary Jones"), Chars("J. Q")}
ScanLineSeqs == UNION {[1..n -> ScanLines] : n \in 0..MaxScanLines}

InitScan ==
    /\ LineIdle
    /\ NormIdle
    /\ NameIdle
    /\ ExportIdle
    /\ MainIdle
    /\ DecodeIdle
    /\ CoverIdle
    /\ SectionsIdle
    /\ AgainIdle
    /\ EmbedIdle
    /\ scan_name \in ScanNames
    /\ \E ls \in ScanLineSeqs : scan_pages \in PagesFrom(ls)
    /\ scan_pg = 1
    /\ scan_ln = 1
    /\ scan_id = Pending

scanFrame ==
    <<line, lineResult, cat_raw, catResult, cand, nameResult, exportVars, mainVars,
      decodeVars, coverVars, sectionVars, againVars, embedVars, scan_name,
      scan_pages>>
ScanAtLine == scan_pg <= Len(scan_pages) /\ scan_ln <= Len(scan_pages[scan_pg])

\* if not toks: return None
ScanNoTokens ==
    /\ scan_id = Pending
    /\ scan_pg = 1 /\ scan_ln = 1
    /\ NameToks(scan_name) = <<>>
    /\ scan_id' = Returned(NoneId)
    /\ UNCHANGED <<scanFrame, scan_pg, scan_ln>>

\* for raw in pg.splitlines(): one pass of the loop body
ScanLine ==
    /\ scan_id = Pending
    /\ NameToks(scan_name) # <<>>
    /\ ScanAtLine
    /\ \E id \in {LineId(scan_pages[scan_pg][scan_ln], NameToks(scan_name))} :
          IF id # NoneId
          THEN scan_id' = Returned(id) /\ UNCHANGED <<scan_pg, scan_ln>>
          ELSE scan_ln' = scan_ln + 1 /\ UNCHANGED <<scan_pg, scan_id>>
    /\ UNCHANGED scanFrame

\* for pg in pages_ocr: the next page
ScanNextPage ==
    /\ scan_id = Pending
    /\ NameToks(scan_name) # <<>>
    /\ scan_pg <= Len(scan_pages)
    /\ scan_ln > Len(scan_pages[scan_pg])
    /\ scan_pg' = scan_pg + 1
    /\ scan_ln' = 1
    /\ UNCHANGED <<scanFrame, scan_id>>

\* return None after the last page
ScanEnd ==
    /\ scan_id = Pending
    /\ NameToks(scan_name) # <<>>
    /\ scan_pg > Len(scan_pages)
    /\ scan_id' = Returned(NoneId)
    /\ UNCHANGED <<scanFrame, scan_pg, scan_ln>>

NextScan == ScanNoTokens \/ ScanLine \/ ScanNextPage \/ ScanEnd

SpecScan == InitScan /\ [][NextScan]_vars

(***************************************************************************)
(* Specification SpecEmbed: process_audio of psp_embed_cover.py with       *)
(* embed_cover_mp3 and embed_cover_m4a, one library call at a time.  The   *)
(* tags of a file are [ape, id3, apic, covr]: whether it has an APE tag    *)
(* and an ID3 header, and which picture its APIC frame and its covr atom   *)
(* hold.  A cover is "good" when PIL can decode its bytes, "bad" when it   *)
(* cannot (the empty bytes of an empty file included).                     *)
(***************************************************************************)
AudioExts == {".mp3", ".m4a", ".wav"}
Pictures == {"none", "old"}
NoTags == [ape |-> FALSE, id3 |-> FALSE, apic |-> "none", covr |-> "none"]
\* the tags a file of the extension can carry before the call
TagsOf(ext) ==
    IF ext = ".mp3"
    THEN {t \in [ape : BOOLEAN, id3 : BOOLEAN, apic : Pictures, covr : {"none"}] :
             t.apic = "old" => t.id3}
    ELSE IF ext = ".m4a"
    THEN {[ape |-> FALSE, id3 |-> FALSE, apic |-> "none", covr |-> p] : p \in Pictures}
    ELSE {NoTags}
\* explicit_cover: None, the empty bytes, or the bytes of a picture
ExplicitCovers == {"None", "empty", "good", "bad"}
\* what find_cover_for_audio returns
FoundCovers == {"None", "good", "bad"}
EmbedInputs ==
    UNION {[ext : {e}, before : TagsOf(e), explicit : ExplicitCovers,
            found : FoundCovers, opens : BOOLEAN] : e \in AudioExts}

InitEmbed ==
    /\ LineIdle
    /\ NormIdle
    /\ NameIdle
    /\ ExportIdle
    /\ MainIdle
    /\ DecodeIdle
    /\ CoverIdle
    /\ SectionsIdle
    /\ ScanIdle
    /\ AgainIdle
    /\ emb_in \in EmbedInputs
    /\ emb_file = emb_in.before
    /\ emb_cover = Pending
    /\ emb_pc = "start"
    /\ emb_result = Pending

embedFrame ==
    <<line, lineResult, cat_raw, catResult, cand, nameResult, exportVars, mainVars,
      decodeVars, coverVars, sectionVars, scanVars, againVars, emb_in>>
\* return False / return True
EmbedReturn(v) ==
    /\ emb_result' = Returned(v)
    /\ emb_pc' = "done"

\* cover = explicit_cover or find_cover_for_audio(audio_path): None and the
\* empty bytes are falsy
ChosenCover(in) == IF in.explicit \in {"None", "empty"} THEN in.found ELSE in.explicit

\* the choice of the cover, 'if cover is None: return False', and the
\* dispatch on the extension
ChooseCover ==
    /\ emb_pc = "start"
    /\ emb_cover' = Returned(ChosenCover(emb_in))
    /\ IF ChosenCover(emb_in) = "None" THEN EmbedReturn(FALSE)
       ELSE IF emb_in.ext = ".mp3" THEN emb_pc' = "ape" /\ UNCHANGED emb_result
       ELSE IF emb_in.ext = ".m4a" THEN emb_pc' = "open" /\ UNCHANGED emb_result
       ELSE EmbedReturn(FALSE)
    /\ UNCHANGED <<embedFrame, emb_file>>

\* embed_cover_mp3: APEv2(mp3_path).delete() removes the APE tag from the
\* file; a file without APE tag, or one the library cannot open, makes
\* APEv2 raise, which is passed over
DeleteApe ==
    /\ emb_pc = "ape"
    /\ emb_file' = IF emb_in.opens THEN [emb_file EXCEPT !.ape = FALSE] ELSE emb_file
    /\ emb_pc' = "id3"
    /\ UNCHANGED <<embedFrame, emb_cover, emb_result>>

\* tags = ID3(mp3_path), or ID3() without header, and the APIC frames are
\* deleted from tags: in memory only; a file the library cannot open raises
LoadId3 ==
    /\ emb_pc = "id3"
    /\ IF emb_in.opens THEN emb_pc' = "jpeg" /\ UNCHANGED emb_result
       ELSE EmbedReturn(FALSE)
    /\ UNCHANGED <<embedFrame, emb_file, emb_cover>>

\* embed_cover_m4a: mp4 = MP4(m4a_path)
OpenMp4 ==
    /\ emb_pc = "open"
    /\ IF emb_in.opens THEN emb_pc' = "jpeg" /\ UNCHANGED emb_result
       ELSE EmbedReturn(FALSE)
    /\ UNCHANGED <<embedFrame, emb_file, emb_cover>>

\* jpg = make_psp_jpeg(cover_bytes, ...): Image.open raises on bytes that
\* are no picture, and process_audio returns False
MakeJpeg ==
    /\ emb_pc = "jpeg"
    /\ IF emb_cover = Returned("good") THEN emb_pc' = "save" /\ UNCHANGED emb_result
       ELSE EmbedReturn(FALSE)
    /\ UNCHANGED <<embedFrame, emb_file, emb_cover>>

\* the tags after a save: one APIC frame or one covr atom with the new picture
Saved(tags, ext) ==
    IF ext = ".mp3" THEN [tags EXCEPT !.id3 = TRUE, !.apic = "new"]
    ELSE [tags EXCEPT !.covr = "new"]
\* tags.add(APIC(...)); tags.save(mp3_path, v2_version=3), or mp4["covr"] =
\* [...]; mp4.save(), and return True
SaveTags ==
    /\ emb_pc = "save"
    /\ emb_file' = Saved(emb_file, emb_in.ext)
    /\ EmbedReturn(TRUE)
    /\ UNCHANGED <<embedFrame, emb_cover>>

NextEmbed == ChooseCover \/ DeleteApe \/ LoadId3 \/ OpenMp4 \/ MakeJpeg \/ SaveTags

SpecEmbed == InitEmbed /\ [][NextEmbed]_vars

(***************************************************************************)
(* main from the parsing of the pages to the writing of the tables and of  *)
(* the readable text.                                                      *)
(***************************************************************************)
InitExport ==
    /\ hybrid \in BOOLEAN
    /\ pages \in Documents
    /\ grp_rows = <<>>
    /\ provider_entries = <<>>
    /\ meta = NoMeta
    /\ csv_totals = <<>>
    /\ csv_categories = <<>>
    /\ readable = <<>>
    /\ stage = "group"
    /\ LineIdle
    /\ NormIdle
    /\ NameIdle
    /\ MainIdle
    /\ AuxIdle

\* raw_provider_pages = pages[2:]; in hybrid mode the pages the decoded
\* headers mark, here the same ones (as in the fallback)
ProviderPages == SubSeq(pages, 3, Len(pages))

ParseGroup ==
    /\ stage = "group"
    /\ grp_rows' = parse_group_categories(pages)
    /\ stage' = "build"
    /\ UNCHANGED <<pureVars, mainVars, hybrid, pages, provider_entries, meta, csv_totals,
                   csv_categories, readable>>

\* one round of the loop over raw_provider_pages
BuildEntry ==
    /\ stage = "build"
    /\ ~hybrid
    /\ Len(provider_entries) < Len(ProviderPages)
    /\ \E parsed \in {parse_provider_page(ProviderPages[Len(provider_entries) + 1])} :
          provider_entries' = Append(provider_entries, Entry(parsed[1], parsed[2], <<>>))
    /\ UNCHANGED <<pureVars, mainVars, hybrid, pages, grp_rows, meta, csv_totals,
                   csv_categories, readable, stage>>

\* one round of the loop over provider_indices in hybrid mode: the rows are
\* every record line of the OCR page
BuildEntryHybrid ==
    /\ stage = "build"
    /\ hybrid
    /\ Len(provider_entries) < Len(ProviderPages)
    /\ \E who \in DecodedIdentities,
             rows \in {RowsOfLines(ProviderPages[Len(provider_entries) + 1])} :
          provider_entries' = Append(provider_entries, Entry(who[1], rows, who[2]))
    /\ UNCHANGED <<pureVars, mainVars, hybrid, pages, grp_rows, meta, csv_totals,
                   csv_categories, readable, stage>>

\* metadata.json, write_group_csvs and write_provider_csvs_from_entries
WriteTables ==
    /\ stage = "build"
    /\ Len(provider_entries) = Len(ProviderPages)
    /\ meta' \in Metas
    /\ csv_totals' = TotalsCsvRows(provider_entries)
    /\ csv_categories' = CategoriesCsvRows(provider_entries)
    /\ stage' = "tables"
    /\ UNCHANGED <<pureVars, mainVars, hybrid, pages, grp_rows, provider_entries, readable>>

\* write_combined_readable_text
WriteReadable ==
    /\ stage = "tables"
    /\ readable' = build_text(meta, grp_rows, provider_entries)
    /\ stage' = "done"
    /\ UNCHANGED <<pureVars, mainVars, hybrid, pages, grp_rows, provider_entries, meta,
                   csv_totals, csv_categories>>

NextExport ==
    \/ ParseGroup
    \/ BuildEntry
    \/ BuildEntryHybrid
    \/ WriteTables
    \/ WriteReadable

SpecExport == InitExport /\ [][NextExport]_vars

(***************************************************************************)
(* main(): text extraction, exit codes and the outputs; in hybrid mode the *)
(* recovery of the provider ids.  What the recognition of a page image or  *)
(* a search of the recognized text returns is an input of the run.         *)
(***************************************************************************)
MaxDocPages == 3
MaxSummaryPages == 2

\* provider_id is None, or a string of digits
NoId == <<>>
ProviderIds == {Chars("010255"), Chars("654321")}
IdResults == {NoId} \cup ProviderIds

GroupPage == Chars("GROUP SUMMARY")
ProviderPage == Chars("GROUP PAYMENTS TO PROVIDER") \o <<LF>> \o Chars("JOHN SMITH")
MainDocuments == UNION {[1..n -> {GroupPage, ProviderPage}] : n \in 0..MaxDocPages}

\* ocr_pdf_to_text writes every page's text followed by "\n\f\n"
OcrText(page_texts) == Concat([k \in 1..Len(page_texts) |-> page_texts[k] \o <<LF, FF, LF>>])
\* the text layer of the document as pdftotext returns it: every page followed
\* by a form feed, the characters shifted down by MainShift
ShiftDown(txt) ==
    [i \in 1..Len(txt) |->
        IF MainLow + MainShift <= Ord(txt[i]) /\ Ord(txt[i]) <= MainHigh + MainShift
        THEN Chr(Ord(txt[i]) - MainShift)
        ELSE txt[i]]
TextLayer(doc) == ShiftDown(Concat([k \in 1..Len(doc) |-> doc[k] \o <<FF>>]))

ToolFailures == {"none", "render", "tesseract", "pdftotext"}
\* the command that exits nonzero, and for tesseract the page it fails on
FailPoints(doc) ==
    {[tool |-> f, at |-> 0] : f \in ToolFailures \ {"tesseract"}}
    \cup {[tool |-> "tesseract", at |-> k] : k \in 1..Len(doc)}
Sources == {"ocr", "poppler-decode"}
MainArgs ==
    [exists : BOOLEAN, hybrid : BOOLEAN, source : Sources, use_ocr : BOOLEAN,
     is_txt : BOOLEAN]
\* file_text is what a .txt input holds: a sidecar written by ocr_pdf_to_text
\* or the pages joined by form feeds
MainEnvs ==
    UNION {{[file_text |-> IF sidecar THEN OcrText(doc) ELSE Join(doc, <<FF>>),
             page_texts |-> doc,
             layer |-> TextLayer(doc),
             fails |-> fp.tool,
             fail_at |-> fp.at] : sidecar \in BOOLEAN, fp \in FailPoints(doc)}
           : doc \in MainDocuments}

\* write_group_csvs and write_provider_csvs_from_entries, after metadata.json
TableFiles ==
    {"metadata.json", "group_categories.csv", "provider_categories.csv",
     "provider_totals.csv"}
ReadableFiles == {"combined_readable.txt", "combined_readable.md"}
OptionalWriters == {"write_provider_payments_csv", "write_group_payments_csv"}
\* the prefixes of the two temporary directories
OcrPagesDir == "ocr_pages_"
IdImagesDir == "ocr_pages_for_id_"
\* a command line: the program and, for tesseract, the page it works on
Command(tool, page) == [tool |-> tool, page |-> page]
CoreFiles ==
    {"metadata.json", "group_categories.csv", "provider_categories.csv",
     "provider_totals.csv", "combined_readable.txt", "combined_readable.md"}
HybridReferenceFiles ==
    {"hybrid_reference_ocr.txt", "hybrid_reference_decoded.txt",
     "hybrid_reference_ocr_clean.txt", "hybrid_reference_decoded_clean.txt"}
ReferenceFiles(a) ==
    IF a.hybrid THEN HybridReferenceFiles
    ELSE IF a.source = "ocr" THEN {"ocr_text.txt", "ocr_text_clean.txt"}
    ELSE {"decoded_text.txt", "decoded_text_clean.txt"}

mainInputs == <<args, env>>
extractVars == <<text, decoded_text>>
loopVars == <<provider_indices, loop_i, entry_ids>>
outVars == <<written, exit_code>>

InitMain ==
    /\ args \in MainArgs
    /\ env \in MainEnvs
    /\ pc = "start"
    /\ text = Pending
    /\ decoded_text = Pending
    /\ provider_indices = <<>>
    /\ loop_i = 0
    /\ provider_id = NoId
    /\ summary_left = 0
    /\ entry_ids = <<>>
    /\ written = {}
    /\ exit_code = Pending
    /\ temp_dirs = {}
    /\ temp_made = {}
    /\ commands = <<>>
    /\ attempted = {}
    /\ swallowed = {}
    /\ LineIdle
    /\ NormIdle
    /\ NameIdle
    /\ ExportIdle
    /\ AuxIdle

\* sys.exit(code), or an exception nothing catches (the interpreter exits with 1)
Exit(code) ==
    /\ exit_code' = Returned(code)
    /\ pc' = "exited"

\* in_path.exists() and out_dir.mkdir
CheckInput ==
    /\ pc = "start"
    /\ IF ~args.exists
       THEN Exit(1)
       ELSE pc' = "extract" /\ UNCHANGED exit_code
    /\ UNCHANGED <<pureVars, exportVars, mainInputs, extractVars, loopVars,
                   provider_id, summary_left, written, sysVars>>

\* read_text_from_input reads a .txt input as it is unless OCR is forced
ReadsTxt == ~args.hybrid /\ args.source = "ocr" /\ args.is_txt /\ ~args.use_ocr
RunsOcr == args.hybrid \/ (args.source = "ocr" /\ ~ReadsTxt)
RunsPoppler == args.hybrid \/ args.source = "poppler-decode"

\* leaving a with block, by its end or by an exception, removes its directory
Leave(dir) == temp_dirs' = temp_dirs \ {dir}
\* a variant in which an exception leaves the directory behind
RaiseLeaking(dir) ==
    /\ UNCHANGED temp_dirs
    /\ Exit(1)
\* an exception nothing catches: the with block is left, the process exits
\* with status 1
Raise(dir) ==
    /\ Leave(dir)
    /\ Exit(1)
extractFrame ==
    <<pureVars, exportVars, mainInputs, loopVars, provider_id, summary_left,
      written, attempted, swallowed>>

\* read_text_from_input on a .txt input: the file is read as it is
ReadTxt ==
    /\ pc = "extract"
    /\ ReadsTxt
    /\ text' = Returned(env.file_text)
    /\ pc' = "split"
    /\ UNCHANGED <<extractFrame, decoded_text, exit_code, temp_dirs, temp_made,
                   commands>>

\* ocr_pdf_to_text: with tempfile.TemporaryDirectory(prefix="ocr_pages_")
OcrEnter ==
    /\ pc = "extract"
    /\ RunsOcr
    /\ temp_dirs' = temp_dirs \cup {OcrPagesDir}
    /\ temp_made' = temp_made \cup {OcrPagesDir}
    /\ pc' = "render"
    /\ UNCHANGED <<extractFrame, extractVars, exit_code, commands>>

\* _render_with_pdftoppm: run_command raises on a nonzero exit, and
\* ocr_pdf_to_text raises when no page image was produced
OcrRender ==
    /\ pc = "render"
    /\ commands' = Append(commands, Command("pdftoppm", 0))
    /\ IF env.fails = "render" \/ env.page_texts = <<>>
       THEN Raise(OcrPagesDir)
       ELSE pc' = "ocr_page" /\ UNCHANGED <<temp_dirs, exit_code>>
    /\ UNCHANGED <<extractFrame, extractVars, temp_made>>

\* the pages recognized so far in the loop over page_images
PagesDone == Cardinality({k \in 1..Len(commands) : commands[k].tool = "tesseract"})

\* a variant that goes on to the next page when the recognition fails
OcrPageLenient ==
    /\ pc = "ocr_page"
    /\ PagesDone < Len(env.page_texts)
    /\ commands' = Append(commands, Command("tesseract", PagesDone + 1))
    /\ UNCHANGED <<pc, temp_dirs, exit_code>>
    /\ UNCHANGED <<extractFrame, extractVars, temp_made>>

\* for img in page_images: run_command(["tesseract", ...])
OcrPage ==
    /\ pc = "ocr_page"
    /\ PagesDone < Len(env.page_texts)
    /\ commands' = Append(commands, Command("tesseract", PagesDone + 1))
    /\ IF env.fails = "tesseract" /\ env.fail_at = PagesDone + 1
       THEN Raise(OcrPagesDir)
       ELSE UNCHANGED <<pc, temp_dirs, exit_code>>
    /\ UNCHANGED <<extractFrame, extractVars, temp_made>>

\* the page texts are concatenated into the sidecar file, the with block
\* ends, and read_text_from_input reads the sidecar back
OcrConcat ==
    /\ pc = "ocr_page"
    /\ PagesDone = Len(env.page_texts)
    /\ text' = Returned(OcrText(env.page_texts))
    /\ Leave(OcrPagesDir)
    /\ pc' = IF args.hybrid THEN "poppler" ELSE "split"
    /\ UNCHANGED <<extractFrame, decoded_text, exit_code, temp_made, commands>>

\* extract_text_with_poppler and decode_caesar_shift: in hybrid mode after
\* the OCR, with --source poppler-decode in its place
Poppler ==
    /\ \/ pc = "poppler"
       \/ pc = "extract" /\ ~ReadsTxt /\ ~RunsOcr
    /\ commands' = Append(commands, Command("pdftotext", 0))
    /\ IF env.fails = "pdftotext"
       THEN /\ Exit(1)
            /\ UNCHANGED extractVars
       ELSE /\ IF args.hybrid
               THEN decoded_text' = Returned(MainDecode(env.layer)) /\ UNCHANGED text
               ELSE text' = Returned(MainDecode(env.layer)) /\ UNCHANGED decoded_text
            /\ pc' = "split"
            /\ UNCHANGED exit_code
    /\ UNCHANGED <<extractFrame, temp_dirs, temp_made>>

PagesOcr == Split(text[1], FF)
PagesDec == Split(decoded_text[1], FF)
PageHeader == Chars("GROUP PAYMENTS TO PROVIDER")

\* the indices i in range(from, upto) whose decoded page holds the header
RECURSIVE HeaderIndices(_, _, _)
HeaderIndices(pages_dec, from, upto) ==
    IF from >= upto THEN <<>>
    ELSE (IF Contains(Upper(BlankControlChars(pages_dec[from + 1])), PageHeader)
          THEN <<from>> ELSE <<>>)
         \o HeaderIndices(pages_dec, from + 1, upto)
\* list(range(2, upto))
FallbackIndices(upto) == [k \in 1..Max({upto - 2, 0}) |-> k + 1]
ProviderIndices(pages_ocr, pages_dec) ==
    LET upto == Min({Len(pages_ocr), Len(pages_dec)})
        found == HeaderIndices(pages_dec, 1, upto)
    IN  IF found = <<>> THEN FallbackIndices(upto) ELSE found

\* text.split("\f") and the test for no pages; then, outside hybrid mode, one
\* entry (without id) for every page of pages[2:], and in hybrid mode the
\* provider indices
SplitPages ==
    /\ pc = "split"
    /\ IF args.hybrid
       THEN IF Len(PagesOcr) = 0 \/ Len(PagesDec) = 0
            THEN /\ Exit(2)
                 /\ UNCHANGED loopVars
            ELSE /\ provider_indices' = ProviderIndices(PagesOcr, PagesDec)
                 /\ loop_i' = 1
                 /\ pc' = "images"
                 /\ UNCHANGED <<entry_ids, exit_code>>
       ELSE IF Len(PagesOcr) = 0
            THEN /\ Exit(2)
                 /\ UNCHANGED loopVars
            ELSE /\ entry_ids' = [k \in 1..Max({Len(PagesOcr) - 2, 0}) |-> NoId]
                 /\ pc' = "write"
                 /\ UNCHANGED <<provider_indices, loop_i, exit_code>>
    /\ UNCHANGED <<pureVars, exportVars, mainInputs, extractVars, provider_id,
                   summary_left, written, sysVars>>

\* with tempfile.TemporaryDirectory(prefix="ocr_pages_for_id_"): the pages
\* are rendered once more; a nonzero exit of the rasterizer is not caught
RenderImages ==
    /\ pc = "images"
    /\ temp_made' = temp_made \cup {IdImagesDir}
    /\ commands' = Append(commands, Command("pdftoppm", 0))
    /\ \E render_ok \in BOOLEAN :
          IF render_ok
          THEN /\ temp_dirs' = temp_dirs \cup {IdImagesDir}
               /\ pc' = "loop"
               /\ UNCHANGED exit_code
          ELSE /\ UNCHANGED temp_dirs
               /\ Exit(1)
    /\ UNCHANGED <<pureVars, exportVars, mainInputs, extractVars, loopVars,
                   provider_id, summary_left, written, attempted, swallowed>>

\* what the steps of the id recovery leave alone
cascadeFrame ==
    <<pureVars, exportVars, mainInputs, extractVars, loopVars, outVars,
      temp_dirs, temp_made, commands, attempted>>
\* except Exception: the probe that raised is left without a result
Swallow(step) == swallowed' = swallowed \cup {step}

\* the steps of the loop body that stand outside the try blocks
UnguardedSteps == {"id_map", "ocr_scan", "summary"}
\* an exception raised there is caught nowhere
LoopRaises ==
    /\ pc \in UnguardedSteps
    /\ Raise(IdImagesDir)
    /\ UNCHANGED <<pureVars, exportVars, mainInputs, extractVars, loopVars,
                   provider_id, summary_left, written, temp_made, commands,
                   attempted, swallowed>>

\* for i in provider_indices: extract_provider_name_and_id_from_decoded
BeginProvider ==
    /\ pc = "loop"
    /\ loop_i <= Len(provider_indices)
    /\ \E found \in IdResults : provider_id' = found
    /\ pc' = "id_map"
    /\ UNCHANGED <<cascadeFrame, summary_left, swallowed>>

\* the loop over provider_indices is over and the with block ends
LoopDone ==
    /\ pc = "loop"
    /\ loop_i > Len(provider_indices)
    /\ Leave(IdImagesDir)
    /\ pc' = "write"
    /\ UNCHANGED <<pureVars, exportVars, mainInputs, extractVars, loopVars,
                   outVars, provider_id, summary_left, temp_made, commands,
                   attempted, swallowed>>

\* if provider_id is None and canon in id_map
IdMapLookup ==
    /\ pc = "id_map"
    /\ \E hit \in IdResults :
          provider_id' = IF provider_id = NoId /\ hit # NoId THEN hit ELSE provider_id
    /\ pc' = "ocr_scan"
    /\ UNCHANGED <<cascadeFrame, summary_left, swallowed>>

\* if provider_id is None: _find_id_for_provider_in_ocr_pages
OcrScan ==
    /\ pc = "ocr_scan"
    /\ \E found_any \in IdResults :
          provider_id' = IF provider_id = NoId /\ found_any # NoId THEN found_any
                         ELSE provider_id
    /\ pc' = IF provider_id' = NoId THEN "tsv" ELSE "append"
    /\ UNCHANGED <<cascadeFrame, summary_left, swallowed>>

\* a variant without the try block: an exception of the probe ends the run
TsvProbeFatal ==
    /\ pc = "tsv"
    /\ \E raised \in BOOLEAN, near \in IdResults :
          IF raised
          THEN /\ provider_id' = provider_id
               /\ Swallow("tsv")
               /\ Raise(IdImagesDir)
          ELSE /\ provider_id' = near
               /\ pc' = IF near = NoId THEN "crop" ELSE "append"
               /\ UNCHANGED <<swallowed, temp_dirs, exit_code>>
    /\ UNCHANGED <<pureVars, exportVars, mainInputs, extractVars, loopVars,
                   written, temp_made, commands, attempted, summary_left>>

\* _run_tesseract_tsv and _find_provider_id_near_name_tsv on the page image;
\* an exception ends the try block
TsvProbe ==
    /\ pc = "tsv"
    /\ \E raised \in BOOLEAN, near \in IdResults :
          IF raised
          THEN provider_id' = provider_id /\ pc' = "summary" /\ Swallow("tsv")
          ELSE /\ provider_id' = near
               /\ pc' = IF near = NoId THEN "crop" ELSE "append"
               /\ UNCHANGED swallowed
    /\ UNCHANGED <<cascadeFrame, summary_left>>

\* _get_name_bbox_from_tsv and _ocr_digits_from_crop
CropProbe ==
    /\ pc = "crop"
    /\ \E raised \in BOOLEAN, bbox \in BOOLEAN, cand_digits \in IdResults :
          /\ provider_id' = IF ~raised /\ bbox /\ cand_digits # NoId THEN cand_digits
                            ELSE provider_id
          /\ IF raised THEN Swallow("crop") ELSE UNCHANGED swallowed
    /\ pc' = IF provider_id' = NoId THEN "summary" ELSE "append"
    /\ UNCHANGED <<cascadeFrame, summary_left>>

\* _find_provider_summary_pages
FindSummaryPages ==
    /\ pc = "summary"
    /\ \E n \in 0..Min({MaxSummaryPages, Len(PagesDec)}) :
          /\ summary_left' = n
          /\ pc' = IF n = 0 THEN "append" ELSE "sum_dec"
    /\ UNCHANGED <<cascadeFrame, provider_id, swallowed>>

\* continue: on to the next summary page, if there is one
NextSummaryPage ==
    /\ summary_left' = summary_left - 1
    /\ pc' = IF summary_left = 1 THEN "append" ELSE "sum_dec"

\* if provider_id is None: _extract_id_from_decoded_summary_text, break on success
SummaryDecoded ==
    /\ pc = "sum_dec"
    /\ \E found_id_dec \in IdResults :
          IF provider_id = NoId /\ found_id_dec # NoId
          THEN provider_id' = found_id_dec /\ pc' = "append"
          ELSE provider_id' = provider_id /\ pc' = "sum_ocr"
    /\ UNCHANGED <<cascadeFrame, summary_left, swallowed>>

\* if not provider_id and ocr_page_text: _extract_id_from_ocr_summary_text
SummaryOcrText ==
    /\ pc = "sum_ocr"
    /\ \E found_id \in IdResults :
          provider_id' = IF provider_id = NoId /\ found_id # NoId THEN found_id
                         ELSE provider_id
    /\ pc' = "sum_tsv"
    /\ UNCHANGED cascadeFrame
    /\ UNCHANGED <<summary_left, swallowed>>

\* tsv_words2 = _run_tesseract_tsv(...);
\* provider_id = _find_provider_id_near_name_tsv(tsv_words2, name)
SummaryTsv ==
    /\ pc = "sum_tsv"
    /\ \E raised \in BOOLEAN, near \in IdResults :
          IF raised
          THEN provider_id' = provider_id /\ NextSummaryPage /\ Swallow("sum_tsv")
          ELSE /\ provider_id' = near
               /\ IF near = NoId THEN pc' = "sum_crop" ELSE pc' = "append"
               /\ UNCHANGED <<summary_left, swallowed>>
    /\ UNCHANGED cascadeFrame

\* if provider_id is None: _get_name_bbox_from_tsv and _ocr_digits_from_crop;
\* if provider_id: break
SummaryCrop ==
    /\ pc = "sum_crop"
    /\ \E raised \in BOOLEAN, bbox2 \in BOOLEAN, cand2 \in IdResults :
          IF raised
          THEN provider_id' = provider_id /\ NextSummaryPage /\ Swallow("sum_crop")
          ELSE /\ IF bbox2 /\ cand2 # NoId
                  THEN provider_id' = cand2 /\ pc' = "append" /\ UNCHANGED summary_left
                  ELSE provider_id' = provider_id /\ NextSummaryPage
               /\ UNCHANGED swallowed
    /\ UNCHANGED cascadeFrame

\* provider_entries.append({..., "id": provider_id}); the next provider starts
\* with no swallowed exception
AppendEntry ==
    /\ pc = "append"
    /\ entry_ids' = Append(entry_ids, provider_id)
    /\ loop_i' = loop_i + 1
    /\ pc' = "loop"
    /\ swallowed' = {}
    /\ UNCHANGED <<pureVars, exportVars, mainInputs, extractVars, provider_indices,
                   provider_id, summary_left, outVars, temp_dirs, temp_made,
                   commands, attempted>>

writeFrame ==
    <<pureVars, exportVars, mainInputs, extractVars, loopVars, provider_id,
      summary_left, temp_dirs, temp_made, commands, swallowed>>

\* metadata.json, write_group_csvs and write_provider_csvs_from_entries
WriteTablesMain ==
    /\ pc = "write"
    /\ written' = written \cup TableFiles
    /\ pc' = IF args.hybrid THEN "provider_payments" ELSE "readable"
    /\ UNCHANGED <<writeFrame, exit_code, attempted>>

\* a variant without the try block: a failure of the writer ends the run
WriteProviderPaymentsFatal ==
    /\ pc = "provider_payments"
    /\ attempted' = attempted \cup {"write_provider_payments_csv"}
    /\ \E payments_ok \in BOOLEAN :
          IF payments_ok
          THEN /\ written' = written \cup {"provider_payments.csv"}
               /\ pc' = "group_payments"
               /\ UNCHANGED exit_code
          ELSE /\ UNCHANGED written
               /\ Exit(1)
    /\ UNCHANGED writeFrame

\* try: write_provider_payments_csv(...) except Exception: pass
WriteProviderPayments ==
    /\ pc = "provider_payments"
    /\ attempted' = attempted \cup {"write_provider_payments_csv"}
    /\ \E payments_ok \in BOOLEAN :
          written' = written \cup (IF payments_ok THEN {"provider_payments.csv"} ELSE {})
    /\ pc' = "group_payments"
    /\ UNCHANGED <<writeFrame, exit_code>>

\* try: write_group_payments_csv(...) except Exception: pass
WriteGroupPayments ==
    /\ pc = "group_payments"
    /\ attempted' = attempted \cup {"write_group_payments_csv"}
    /\ \E group_ok \in BOOLEAN :
          written' = written \cup (IF group_ok THEN {"group_payments.csv"} ELSE {})
    /\ pc' = "readable"
    /\ UNCHANGED <<writeFrame, exit_code>>

\* metadata.json once more, write_combined_readable_text and the reference
\* texts; main returns
WriteOutputs ==
    /\ pc = "readable"
    /\ written' = written \cup {"metadata.json"} \cup ReadableFiles
                   \cup ReferenceFiles(args)
    /\ Exit(0)
    /\ UNCHANGED <<writeFrame, attempted>>

NextMain ==
    \/ CheckInput
    \/ ReadTxt
    \/ OcrEnter
    \/ OcrRender
    \/ OcrPage
    \/ OcrConcat
    \/ Poppler
    \/ SplitPages
    \/ RenderImages
    \/ BeginProvider
    \/ LoopRaises
    \/ LoopDone
    \/ IdMapLookup
    \/ OcrScan
    \/ TsvProbe
    \/ CropProbe
    \/ FindSummaryPages
    \/ SummaryDecoded
    \/ SummaryOcrText
    \/ SummaryTsv
    \/ SummaryCrop
    \/ AppendEntry
    \/ WriteTablesMain
    \/ WriteProviderPayments
    \/ WriteGroupPayments
    \/ WriteOutputs

SpecMain == InitMain /\ [][NextMain]_vars

(***************************************************************************)
(* Claims about line_to_category_and_numbers (SpecLine).                   *)
(***************************************************************************)
LineDone == lineResult # Pending
LineOut == lineResult[1]

\* the label as the heuristic reports it: runs of whitespace collapsed,
\* separators and spaces trimmed at both ends
TrimmedLabel(l) == StripSet(CollapseWs(l), {":", "-", EnDash, EmDash, " "})

\* C1 as stated: a line '<label> <a> <b>' yields normalize_category of the
\* label with only trailing ':', '-' and spaces trimmed, and the values of a
\* and b.
C1_TrailingTrimOnly ==
    \A l \in Labels, a \in Tokens, b \in Tokens :
        (LineDone /\ line = RecordLine(l, a, b)) =>
            LineOut = Record(normalize_category(RStripSet(l, {":", "-", " "})),
                             a.cents, b.cents)

\* C1 amended: a line '<label> <a> <b>' yields normalize_category of the label
\* with whitespace runs collapsed and ':', '-', en dash, em dash and spaces
\* trimmed at both ends, and the values of a and b.
C1_RecordLine ==
    \A l \in Labels, a \in Tokens, b \in Tokens :
        (LineDone /\ line = RecordLine(l, a, b)) =>
            LineOut = Record(normalize_category(TrimmedLabel(l)), a.cents, b.cents)

C1_Witness ==
    /\ LineDone
    /\ line = Chars("-FOO 1,234.56 -5.00")
    /\ LineOut = Record(Chars("FOO"), 123456, 0 - 500)

\* C9: a line with fewer than two currency-like numeric tokens yields
\* (None, None, None).
C9_FewerThanTwoNumbers ==
    (LineDone /\ Len(NumFindAll(Strip(line))) < 2) => LineOut = NoneResult

C9_Witness ==
    /\ LineDone
    /\ HasLetter(line)
    /\ Len(NumFindAll(Strip(line))) = 1
    /\ LineOut = NoneResult

\* the text of the stripped line that precedes its last two numeric tokens
TextBeforeLastTwo(s) ==
    LET sp == NumSpans(s)
    IN  Upto(s, sp[Len(sp) - 1][1] - 1)

\* C10: when the text preceding the last two numeric tokens holds no letter the
\* result is (None, None, None), and every category returned holds a letter.
C10_LabelHasLetter ==
    LineDone =>
        /\ (/\ Len(NumSpans(Strip(line))) >= 2
            /\ ~HasLetter(TextBeforeLastTwo(Strip(line)))) => LineOut = NoneResult
        /\ ~LineOut.none => HasLetter(LineOut.category)

C10_Witness ==
    /\ LineDone
    /\ Len(NumSpans(Strip(line))) >= 2
    /\ HasLetter(line)
    /\ ~HasLetter(TextBeforeLastTwo(Strip(line)))
    /\ LineOut = NoneResult

(***************************************************************************)
(* Claims about normalize_category (SpecNorm).                             *)
(***************************************************************************)
NormDone == catResult # Pending
NormOut == catResult[1]

\* a label uppercased, whitespace-collapsed, with dashes taken as spaces
DashBlind(l) == Replace(normalize_spaces(Upper(l)), <<"-">>, <<" ">>)

\* C7: a label equal to a canonical name once both are uppercased,
\* whitespace-collapsed and have dashes treated as spaces is returned as that
\* canonical name.
C7_DashInsensitive ==
    NormDone =>
        \A p \in CATEGORY_CANON :
            DashBlind(cat_raw) = DashBlind(p[1]) => NormOut = p[2]

\* r is raw without its leading and trailing whitespace, nothing else changed
IsTrimOf(r, raw) ==
    IF r = <<>> THEN \A i \in 1..Len(raw) : IsSpace(raw[i])
    ELSE /\ ~IsSpace(r[1]) /\ ~IsSpace(r[Len(r)])
         /\ \E i \in 1..Len(raw) :
               /\ OccursAt(raw, i, r)
               /\ \A j \in 1..Len(raw) :
                     (j < i \/ j >= i + Len(r)) => IsSpace(raw[j])

NoCanonicalMatch(raw) ==
    /\ CategoryKey(raw) \notin CanonKeys
    /\ RelaxedKey(CategoryKey(raw)) \notin CanonKeys

\* C8: a label with no canonical match is returned as its input with only the
\* leading and trailing whitespace removed; the bare forms 'FEE-FOR-SERVICE
\* PREMIUM' and 'FEE FOR SERVICE PREMIUM' are returned unchanged.
C8_UnmatchedPassThrough ==
    NormDone =>
        /\ NoCanonicalMatch(cat_raw) => IsTrimOf(NormOut, cat_raw)
        /\ cat_raw \in {Chars("FEE-FOR-SERVICE PREMIUM"), Chars("FEE FOR SERVICE PREMIUM")}
              => NormOut = cat_raw

C8_Witness ==
    /\ NormDone
    /\ cat_raw = <<" ", "\t">> \o Chars("fee  for  service  premium") \o <<" ">>
    /\ NormOut = Chars("fee  for  service  premium")

(***************************************************************************)
(* Claims about clean_provider_name_raw (SpecName).                        *)
(***************************************************************************)
NameDone == nameResult # Pending
NameOut == nameResult[1]

\* names of two letters or more, as written and as title-cased
NameWords ==
    { [text |-> Chars("JOHN"), titled |-> Chars("John")],
      [text |-> Chars("SMITH"), titled |-> Chars("Smith")],
      [text |-> Chars("mcdonald"), titled |-> Chars("McDonald")] }

\* a candidate whose word tokens are given name, initial Q, the token SC, surname
InitialAndNoise(given, sur) == Join(<<given.text, Chars("Q."), Chars("SC"), sur.text>>, <<" ">>)

\* C6 as stated: for the tokens [given name, one-letter initial, S/C-only
\* token, surname] the result is the given name and the surname only,
\* title-cased: a name of exactly 2 tokens.
C6_TwoTokens ==
    NameDone =>
        /\ \A g \in NameWords, u \in NameWords :
              cand = InitialAndNoise(g, u) => NameOut = g.titled \o <<" ">> \o u.titled
        /\ cand = Chars("JOHN   Q.  SC SMITH") => Len(Split(NameOut, " ")) = 2

\* C6 amended: the S/C-only token is dropped and the initial, which is not the
\* last token, is kept: the result is given name, initial and surname,
\* title-cased, a name of 3 tokens ('John Q Smith' for the example).
C6_InitialKept ==
    NameDone =>
        /\ \A g \in NameWords, u \in NameWords :
              cand = InitialAndNoise(g, u) =>
                  NameOut = g.titled \o Chars(" Q ") \o u.titled
        /\ cand = Chars("JOHN   Q.  SC SMITH") => NameOut = Chars("John Q Smith")

C6_Witness ==
    /\ NameDone
    /\ cand = Chars("JOHN   Q.  SC SMITH")
    /\ NameOut = Chars("John Q Smith")

(***************************************************************************)
(* Claims about the totals and the readable text (SpecExport).             *)
(***************************************************************************)
TablesWritten == stage \in {"tables", "done"}

\* the places of the rows of an entry whose category holds TOTAL CLAIMS PAYABLE
ExplicitTotalPlaces(rows) ==
    {k \in 1..Len(rows) : Contains(Upper(rows[k][1]), TotalKey)}

\* C2: the totals written to provider_totals.csv for a provider entry are the
\* amounts of its explicit TOTAL CLAIMS PAYABLE row when it has one, and the
\* sums over all its rows otherwise.
C2_TotalsExplicitOrSum ==
    TablesWritten =>
        /\ Len(csv_totals) = Len(provider_entries)
        /\ \A i \in 1..Len(provider_entries) :
              LET rows == provider_entries[i].rows
                  explicit == ExplicitTotalPlaces(rows)
              IN  IF explicit # {}
                  THEN \E k \in explicit :
                          /\ csv_totals[i][3] = rows[k][2]
                          /\ csv_totals[i][4] = rows[k][3]
                  ELSE /\ csv_totals[i][3] = SumOf(rows, 2)
                       /\ csv_totals[i][4] = SumOf(rows, 3)

C2_Witness ==
    /\ TablesWritten
    /\ Len(provider_entries) = 2
    /\ LET rows == provider_entries[1].rows
       IN  /\ ExplicitTotalPlaces(rows) # {}
           /\ Len(rows) = 2
           /\ csv_totals[1][3] = 130000
           /\ csv_totals[1][3] # SumOf(rows, 2)
    /\ ExplicitTotalPlaces(provider_entries[2].rows) = {}
    /\ csv_totals[2][3] = 750
    /\ csv_totals[2][4] = 100000825

RowRecords(rows) == {Record(rows[k][1], rows[k][2], rows[k][3]) : k \in 1..Len(rows)}

\* the records handed to write_combined_readable_text
OriginalRecords ==
    RowRecords(grp_rows)
    \cup UNION {RowRecords(provider_entries[i].rows) : i \in 1..Len(provider_entries)}

\* the records line_to_category_and_numbers finds in combined_readable.txt
ExtractedRecords ==
    {line_to_category_and_numbers(readable[k]) : k \in 1..Len(readable)} \ {NoneResult}

\* no category is one of the meta categories the writers skip
NoiseFree ==
    \A i \in 1..Len(provider_entries) :
        \A k \in 1..Len(provider_entries[i].rows) :
            ~IsMetaCategory(provider_entries[i].rows[k][1])

\* C3 as stated: line_to_category_and_numbers over the lines of
\* combined_readable.txt yields exactly the original records, none missing,
\* none extra, none altered.
C3_ExactRoundTrip ==
    (stage = "done" /\ NoiseFree) => ExtractedRecords = OriginalRecords

\* C3 amended: every original record is found again unaltered, none missing;
\* the lines of the Providers Index yield one more record each, (the provider
\* name with its id suffix as normalize_category returns it, total_cur,
\* total_ytd).
C3_RoundTripWithIndex ==
    (stage = "done" /\ NoiseFree) =>
        /\ OriginalRecords \subseteq ExtractedRecords
        /\ \A i \in 1..Len(provider_entries) :
              LET e == provider_entries[i]
              IN  Record(normalize_category(e.name \o IdSuffix(e)), e.total_cur, e.total_ytd)
                    \in ExtractedRecords

C3_Witness ==
    /\ stage = "done"
    /\ NoiseFree
    /\ Len(grp_rows) = 2
    /\ Len(provider_entries) = 2
    /\ Len(provider_entries[1].rows) = 2
    /\ provider_entries[2].id # <<>>
    /\ meta # NoMeta
    /\ OriginalRecords \subseteq ExtractedRecords
    /\ Record(Chars("Mary Jones (ID: 123456)"), 750, 100000825) \in ExtractedRecords

(***************************************************************************)
(* Claims about main (SpecMain).                                           *)
(***************************************************************************)
\* C4: in hybrid mode the id recovery is a first-success cascade: once a step
\* has produced an id for the provider at hand, no later step replaces it or
\* resets it to None, and that id is the one recorded in the provider entry.
C4_FirstSuccessKept ==
    [][/\ (pc # "loop" /\ provider_id # NoId) => provider_id' = provider_id
       /\ pc = "append" => entry_ids' = Append(entry_ids, provider_id)]_vars

\* the extracted text is empty
EmptyExtracted == text = Returned(<<>>) \/ decoded_text = Returned(<<>>)

\* C5: the process exits with code 1 when the input path does not exist and
\* with code 2 when the extracted text is empty, in every mode, and in
\* neither case is an output written.
C5_ExitCodes ==
    exit_code # Pending =>
        /\ ~args.exists => (exit_code = Returned(1) /\ written = {})
        /\ (args.exists /\ EmptyExtracted) => (exit_code = Returned(2) /\ written = {})

(***************************************************************************)
(* C11, C12: decode_caesar_shift.                                          *)
(***************************************************************************)
\* C11: for a text holding at least one character whose code lies in
\* [low, high], decode_caesar_shift applied twice gives a text different
\* from the original, with the default arguments and with those of main.
C11_TwiceNeverIdentity ==
    (dec_twice # Pending /\ \E i \in 1..Len(dec_text) : InRange(dec_text[i], dec_args))
        => dec_twice[1] # dec_text
\* a text with a character shifted twice and one shifted once
C11_Witness ==
    /\ dec_twice # Pending
    /\ dec_args.low = DefaultLow
    /\ dec_text = <<"!", "^", FF>>
    /\ dec_twice[1] = <<"[", "{", FF>>

\* C12: the result has the length of the text; a character with code in
\* [low, high] becomes the character with code + shift; every other
\* character, form feed and line feed among them, is unchanged; and the
\* result is the one a further application to the same text gives.
C12_PerCharacterMap ==
    dec_once # Pending =>
        /\ Len(dec_once[1]) = Len(dec_text)
        /\ \A i \in 1..Len(dec_text) :
              IF InRange(dec_text[i], dec_args)
              THEN Ord(dec_once[1][i]) = Ord(dec_text[i]) + dec_args.shift
              ELSE dec_once[1][i] = dec_text[i]
        /\ \A i \in 1..Len(dec_text) :
              dec_text[i] \in {FF, LF} => dec_once[1][i] = dec_text[i]
        /\ dec_once = Returned(decode_caesar_shift(dec_text, dec_args.shift,
                                                    dec_args.low, dec_args.high))
C12_Witness ==
    /\ dec_once # Pending
    /\ dec_args.low = MainLow
    /\ dec_text = <<"U+0013", FF, LF>>
    /\ dec_once[1] = <<"0", FF, LF>>

(***************************************************************************)
(* C13..C16: temporary directories, optional writers, swallowed and fatal  *)
(* failures in main.                                                       *)
(***************************************************************************)
\* C13: when the process has ended, on whatever path (main returned, a
\* rendering or recognition command failed, an exception left the loop over
\* the providers), no temporary directory the parser created is left on disk.
C13_TempDirsRemoved ==
    /\ temp_dirs \subseteq temp_made
    /\ exit_code # Pending => temp_dirs = {}
\* an exception in the loop body, after a first provider entry was appended
\* and both directories had been created
C13_Witness ==
    /\ exit_code = Returned(1)
    /\ temp_made = {OcrPagesDir, IdImagesDir}
    /\ Len(entry_ids) = 1
    /\ temp_dirs = {}

\* C14: in hybrid mode, when an optional writer has failed, the run still
\* goes on: once it ends both optional writers were called, the exit status
\* is 0 and metadata.json, group_categories.csv, provider_categories.csv,
\* provider_totals.csv and combined_readable.txt/.md are written.
OptionalWriterFailed ==
    \/ /\ "write_provider_payments_csv" \in attempted
       /\ "provider_payments.csv" \notin written
    \/ /\ "write_group_payments_csv" \in attempted
       /\ "group_payments.csv" \notin written
C14_OptionalWritersIsolated ==
    /\ (args.hybrid /\ OptionalWriterFailed) => pc # "exited" \/ exit_code = Returned(0)
    /\ (args.hybrid /\ OptionalWriterFailed /\ exit_code # Pending) =>
          /\ attempted = OptionalWriters
          /\ CoreFiles \subseteq written
C14_Witness ==
    /\ args.hybrid
    /\ exit_code = Returned(0)
    /\ "provider_payments.csv" \notin written
    /\ "group_payments.csv" \in written
    /\ attempted = OptionalWriters
    /\ CoreFiles \subseteq written

\* the probe of this step raised and the exception was caught
Caught(step) == pc = step /\ step \in swallowed' /\ step \notin swallowed
ProbeSteps == {"tsv", "crop", "sum_tsv", "sum_crop"}
\* the entry of a provider without id is appended with its id unset
AppendedUnset ==
    (pc = "append" /\ provider_id = NoId) => entry_ids' = Append(entry_ids, NoId)
\* C15 as stated: a probe that raises does not end the run, the step after
\* it in the cascade is attempted next (the crop after the TSV recognition,
\* on the provider page and on a summary page), and a provider for which
\* every step failed is appended with its id unset.
C15_CascadeProceeds ==
    [][/\ \A step \in ProbeSteps : Caught(step) => exit_code' = Pending
       /\ Caught("tsv") => pc' = "crop"
       /\ Caught("sum_tsv") => pc' = "sum_crop"
       /\ AppendedUnset]_vars
\* C15 amended: a probe that raises does not end the run and leaves the id
\* as it was; the steps left in its try block are skipped: after a raise on
\* the provider page the summary pages come next (the crop is skipped when
\* the TSV recognition raised), after a raise on a summary page the next
\* summary page comes, or the entry is appended when it was the last; a
\* provider for which every step failed is appended with its id unset.
C15_TryBlockSkipped ==
    [][/\ \A step \in ProbeSteps :
             Caught(step) => (exit_code' = Pending /\ provider_id' = provider_id)
       /\ (Caught("tsv") \/ Caught("crop")) => pc' = "summary"
       /\ (Caught("sum_tsv") \/ Caught("sum_crop")) =>
             pc' = (IF summary_left = 1 THEN "append" ELSE "sum_dec")
       /\ AppendedUnset]_vars
\* the TSV recognition raised on the provider page and on a summary page,
\* the crop was never reached, and the entry is about to be appended
C15_Witness ==
    /\ pc = "append"
    /\ swallowed = {"tsv", "sum_tsv"}
    /\ provider_id = NoId
    /\ exit_code = Pending

\* the command exits nonzero (subprocess.run(..., check=True) raises)
ExitsNonzero(c) ==
    \/ c.tool = "pdftoppm" /\ env.fails = "render"
    \/ c.tool = "tesseract" /\ env.fails = "tesseract" /\ c.page = env.fail_at
    \/ c.tool = "pdftotext" /\ env.fails = "pdftotext"
\* C16: a command of the text extraction that exits nonzero was started
\* exactly once, it is the last command started (no further page, no retry),
\* the process has ended with status 1, the text it was to give is not set
\* and no output is written.
C16_FailureFatalOnce ==
    \A k \in 1..Len(commands) :
        ExitsNonzero(commands[k]) =>
            /\ k = Len(commands)
            /\ Cardinality({j \in 1..Len(commands) : commands[j] = commands[k]}) = 1
            /\ exit_code = Returned(1)
            /\ written = {}
            /\ commands[k].tool \in {"pdftoppm", "tesseract"} => text = Pending
            /\ commands[k].tool = "pdftotext" =>
                  (IF args.hybrid THEN decoded_text ELSE text) = Pending
\* the recognition of the second of three pages fails
C16_Witness ==
    /\ env.fails = "tesseract"
    /\ Len(env.page_texts) = 3
    /\ commands = <<Command("pdftoppm", 0), Command("tesseract", 1),
                    Command("tesseract", 2)>>
    /\ exit_code = Returned(1)
    /\ written = {}

(***************************************************************************)
(* C17: find_cover_for_audio.                                              *)
(***************************************************************************)
\* a file named as a JPEG
IsJpegName(name) == EndsWith(name, Chars(".jpg")) \/ EndsWith(name, Chars(".jpeg"))
CanRead(name) == folder[name] = "readable"
FlatLines == Concat(sec_pages)
FlatIndex == Len(Concat(SubSeq(sec_pages, 1, sec_pg - 1))) + sec_ln
UpperOf(ln) == Upper(BlankControlChars(ln))
\* a header line that sets the section kind to one of the four kinds
SetsKind(ln) ==
    /\ ~IsProviderHeader(UpperOf(ln))
    /\ \/ IsAllProvidersHeader(UpperOf(ln))
       \/ IsSummaryAllHeader(UpperOf(ln))
       \/ IsGroupHeader(UpperOf(ln))
       \/ IsExceptionHeader(UpperOf(ln))
\* a header line that clears the matrix flag
ClearsMatrix(ln) ==
    \/ IsProviderHeader(UpperOf(ln))
    \/ IsAllProvidersHeader(UpperOf(ln))
    \/ IsSummaryAllHeader(UpperOf(ln))
SectionKinds ==
    {"GROUP PAYMENTS", "EXCEPTION PAYMENTS", "GROUP PAYMENTS ALL PROVIDERS",
     "SUMMARY ALL PROVIDERS"}
\* the step yields a row
YieldsRow == Len(sec_rows') > Len(sec_rows)
\* the lines before the current one that satisfy the test
Earlier(Test(_)) == {k \in 1..(FlatIndex - 1) : Test(FlatLines[k])}
IsMatrixLine(ln) == HasMatrixHeader(UpperOf(ln))
IsProviderPageLine(ln) == IsProviderHeader(UpperOf(ln))

\* C18 as stated: the group iterator yields a row only if a line holding
\* both CURRENT MONTH and YEAR TO DATE stands on or after the most recent
\* header line that set the section kind.
C18_MatrixSeenForSection ==
    [][(sec_fn = "group" /\ YieldsRow) =>
          /\ Earlier(SetsKind) # {}
          /\ \E m \in Earlier(IsMatrixLine) : m >= Max(Earlier(SetsKind))]_vars
\* C18 amended: the group iterator yields a row only if a section header
\* came before and a line holding both CURRENT MONTH and YEAR TO DATE has
\* been seen with no header of a provider page, of GROUP PAYMENTS ALL
\* PROVIDERS or of SUMMARY ALL PROVIDERS on or after it; a GROUP PAYMENTS or
\* EXCEPTION PAYMENTS header leaves the matrix flag as it is.
C18_MatrixSeenSinceReset ==
    [][(sec_fn = "group" /\ YieldsRow) =>
          /\ Earlier(SetsKind) # {}
          /\ \E m \in Earlier(IsMatrixLine) :
                \A j \in Earlier(ClearsMatrix) : j < m]_vars
\* a row of the exception section is yielded on the matrix header of the
\* group section before it
C18_Witness ==
    /\ sec_fn = "group"
    /\ sec_pages = <<<<GroupMatrixLine, ExceptionHeaderLine, RowLine>>>>
    /\ Len(sec_rows) = 1
    /\ sec_rows[1].payment_type = "EXCEPTION PAYMENTS"

\* C19: after a line holding GROUP PAYMENTS TO PROVIDER the group iterator
\* yields no row before a later header line has set the section kind, on
\* the same page or on a later one, and the payment_type of every row it
\* yields is one of the four kinds.
C19_ProviderPagesIgnored ==
    [][(sec_fn = "group" /\ YieldsRow) =>
          /\ sec_rows'[Len(sec_rows')].payment_type \in SectionKinds
          /\ Earlier(IsProviderPageLine) # {} =>
                \E h \in Earlier(SetsKind) : h > Max(Earlier(IsProviderPageLine))]_vars
\* a provider header at the end of the first page: the row on the second
\* page is not yielded
C19_Witness ==
    /\ sec_fn = "group"
    /\ sec_pages = <<<<GroupMatrixLine, ProviderHeaderLine>>, <<RowLine>>>>
    /\ sec_pg > Len(sec_pages)
    /\ sec_rows = <<>>

\* the label holds TOTAL in some letter case
HasTotalAnyCase(label) ==
    \E i \in 1..(Len(label) - 4) : Upper(SubSeq(label, i, i + 4)) = Chars("TOTAL")
\* a line of three or more fields that is no header and whose first field
\* holds TOTAL in some letter case
IsSubtotalLine(ln) ==
    /\ Len(Split(ln, "=")) >= 3
    /\ HasTotalAnyCase(Split(ln, "=")[1])
    /\ ~IsProviderHeader(UpperOf(ln))
    /\ ~SetsKind(ln)
    /\ ~IsMatrixLine(ln)
    /\ ~Contains(UpperOf(ln), Chars("PROVIDER SUMMARY"))
MinusMarked(ln) ==
    LET parts == Split(ln, "=")
    IN  /\ Len(parts) >= 3
        /\ parts[Len(parts) - 1] # <<>>
        /\ parts[Len(parts) - 1][1] = MinusMark
\* C21: a row of a section matrix whose amount token starts with \x10 is
\* emitted by _iter_group_sections_from_decoded with a negative amount
C21_MinusMarkNegative ==
    [][(GroupLine /\ MinusMarked(CurrentLine) /\ Len(sec_rows') > Len(sec_rows))
        => sec_rows'[Len(sec_rows')].cur < 0]_vars

(***************************************************************************)
(* Claims about amounts without separators (SpecLine).                     *)
(***************************************************************************)
\* C22: a line '<label> <a> <b>' whose amounts have four or more integer
\* digits and no thousands separators yields the label (cleaned and
\* normalized) and exactly the values of a and b
C22_SeparatorsOptional ==
    \A l \in Labels, a \in PlainTokens, b \in PlainTokens :
        (LineDone /\ line = RecordLine(l, a, b)) =>
            LineOut = Record(normalize_category(TrimmedLabel(l)), a.cents, b.cents)

(***************************************************************************)
(* Claims about the number of tokens of a cleaned name (SpecName).         *)
(***************************************************************************)
\* C23: clean_provider_name_raw returns the empty string or a name of
\* between 2 and 4 space-separated tokens, never a single token
C23_TwoToFourTokens ==
    NameDone => (NameOut = <<>> \/ Len(Split(NameOut, " ")) \in 2..MaxNameTokens)

(***************************************************************************)
(* Claims about the name of a provider page (SpecExport).                  *)
(***************************************************************************)
\* no line of the page holds the section header the name is looked for above
NoBaseRateLine(pg) ==
    \A i \in 1..Len(pg) :
        ~Contains(Upper(BlankControlChars(pg[i])), Chars("NETWORK BASE RATE PAYMENT"))
\* a reasonable name line: it has a letter, at most 60 characters and cleans
\* to a non-empty name
IsNameLine(ln) ==
    /\ HasLetter(Strip(ln))
    /\ Len(Strip(ln)) <= 60
    /\ clean_provider_name_raw(Strip(ln)) # <<>>
NameLines(pg) == {i \in 1..Len(pg) : i <= 10 /\ IsNameLine(BlankControlChars(pg[i]))}
\* C24: on a page without 'NETWORK BASE RATE PAYMENT' that has a reasonable
\* name line among its first 10 lines, the provider name is a cleaned name
\* taken from the page, not 'Unknown Provider'
C24_FallbackFindsName ==
    ~hybrid =>
        \A k \in 1..Len(provider_entries) :
            (NoBaseRateLine(ProviderPages[k]) /\ NameLines(ProviderPages[k]) # {}) =>
                /\ provider_entries[k].name # UnknownProvider
                /\ \E i \in NameLines(ProviderPages[k]) :
                      provider_entries[k].name =
                          clean_provider_name_raw(Strip(BlankControlChars(ProviderPages[k][i])))

(***************************************************************************)
(* Claims about the scan of the OCR pages for an id (SpecScan).            *)
(***************************************************************************)
ScanFlat == Concat(scan_pages)
\* the lines that hold the name and yield an id, with and without a keyword
KeywordIdLines ==
    {k \in 1..Len(ScanFlat) :
        /\ LineId(ScanFlat[k], NameToks(scan_name)) # NoneId
        /\ Prefer(Upper(ScanFlat[k]))}
PlainIdLines ==
    {k \in 1..Len(ScanFlat) :
        /\ LineId(ScanFlat[k], NameToks(scan_name)) # NoneId
        /\ ~Prefer(Upper(ScanFlat[k]))}
\* C25: when a line with the name, a digit run and a keyword yields an id,
\* the id returned is the one of such a line, whatever the order of the
\* lines; a line without a keyword is used only when no keyword line yields
\* an id
C25_KeywordLinePreferred ==
    (scan_id # Pending /\ NameToks(scan_name) # <<>> /\ KeywordIdLines # {}) =>
        \E k \in KeywordIdLines :
            scan_id = Returned(LineId(ScanFlat[k], NameToks(scan_name)))

(***************************************************************************)
(* Claims about the rows of a named section of a provider page             *)
(* (SpecSections).                                                         *)
(***************************************************************************)
\* the section header a line of a provider page holds, if any
HeaderOf(ln) ==
    IF Contains(UpperOf(ln), Chars("GROUP PAYMENTS TO PROVIDER"))
    THEN "GROUP PAYMENTS TO PROVIDER"
    ELSE IF Contains(UpperOf(ln), Chars("PROVIDER SUMMARY")) THEN "PROVIDER SUMMARY"
    ELSE NoPaymentType
\* the section line k of the page lies in: the header last seen above it
SectionOfLine(pg, k) ==
    LET above == {j \in 1..(k - 1) : HeaderOf(pg[j]) # NoPaymentType}
    IN  IF above = {} THEN NoPaymentType ELSE HeaderOf(pg[Max(above)])
\* the page holds a matrix of the section: a matrix header line inside it
HoldsMatrixOf(pg, section) ==
    \E k \in 1..Len(pg) : IsMatrixLine(pg[k]) /\ SectionOfLine(pg, k) = section
\* C26: on a page holding both a GROUP PAYMENTS TO PROVIDER matrix and a
\* PROVIDER SUMMARY matrix, the rows returned for one section name never
\* come from the matrix of the other section
C26_OnlyNamedSection ==
    [][(/\ ProviderLine
        /\ \A sn \in SectionNames : HoldsMatrixOf(sec_pages[1], sn)
        /\ Len(sec_rows') > Len(sec_rows))
        => SectionOfLine(sec_pages[1], sec_ln) = section_name]_vars

(***************************************************************************)
(* Claims about applying normalize_category twice (SpecNorm).              *)
(***************************************************************************)
\* C27: normalize_category is idempotent, and every canonical name is a
\* fixed point
C27_Idempotent ==
    /\ cat_again # Pending => cat_again = catResult
    /\ \A c \in CanonValues : (NormDone /\ cat_raw = c) => NormOut = c

(***************************************************************************)
(* Claims about the number of provider entries (SpecMain).                 *)
(***************************************************************************)
\* C28: outside hybrid mode, when the text comes from ocr_pdf_to_text and
\* the document has N >= 3 pages, main builds exactly N - 2 provider
\* entries: the separator written after the last page adds no entry
C28_EntryPerLaterPage ==
    (/\ exit_code = Returned(0)
     /\ ~args.hybrid
     /\ RunsOcr
     /\ Len(env.page_texts) >= 3)
        => Len(entry_ids) = Len(env.page_texts) - 2

(***************************************************************************)
(* Claims about the agreement of the two provider tables (SpecExport).     *)
(***************************************************************************)
\* the rows of provider_categories.csv written for the provider of a name
CategoryRowsOf(name) == SelectSeq(csv_categories, LAMBDA r : r[1] = name)
\* no other entry carries the name of entry i
NameUnique(i) ==
    \A j \in 1..Len(provider_entries) :
        j # i => provider_entries[j].name # provider_entries[i].name
\* C29: for every provider entry without a TOTAL CLAIMS PAYABLE row, the
\* totals of provider_totals.csv are the sums of the current_month and
\* year_to_date columns of the rows written for that provider to
\* provider_categories.csv
C29_TablesAgree ==
    TablesWritten =>
        \A i \in 1..Len(provider_entries) :
            (ExplicitTotalPlaces(provider_entries[i].rows) = {} /\ NameUnique(i)) =>
                /\ csv_totals[i][3] = SumOf(CategoryRowsOf(provider_entries[i].name), 4)
                /\ csv_totals[i][4] = SumOf(CategoryRowsOf(provider_entries[i].name), 5)

(***************************************************************************)
(* Claims about process_audio (SpecEmbed).                                 *)
(***************************************************************************)
\* C30: whenever process_audio returns False, the tags of the audio file
\* (APE tag, ID3 frames with APIC, covr atom) are as they were before the
\* call
C30_AllOrNothing ==
    emb_result = Returned(FALSE) => emb_file = emb_in.before
====
